---- MODULE Spec2Model ----
(***************************************************************************)
(* A model of the Transform stage of milli's document indexer              *)
(* (milli/src/update/index_documents/transform.rs): one Transform session  *)
(* over a persisted index, the calls read_documents, remove_documents and  *)
(* output_from_sorter, and the data they manipulate.                       *)
(***************************************************************************)
EXTENDS Integers, Sequences, FiniteSets, TLC

\* ------------------------------------------------------------------ bounds

\* Records plus removed ids one session handles (an empty call costs one).
MaxEvents == 3
\* Records of one batch, external ids of one removal list.
MaxBatch == 2
\* The internal ids are 0..MaxDocId (u32 in the code).
MaxDocId == 2
\* Number of field ids a FieldsIdsMap can issue (2^16 in the code).
MaxFields == 4
\* FieldId::MAX, the sort key of a name the new fields ids map does not hold.
FieldIdMax == 65535

\* ------------------------------------------------------------- JSON values

\* A JSON value as the raw bytes of a field: its kind and its content.
Scalar(s) == <<"scalar", <<s>>>>
\* An array of scalars.
Array(elems) == <<"array", elems>>
\* An object with the single key k holding the scalar s.
Object(k, s) == <<"object", <<k, s>>>>
\* An object with the single key k holding an array of scalars.
ObjectOfArray(k, elems) == <<"object", <<k, elems>>, "array">>
\* The absent side of a del/add value.
NoVal == <<>>

\* Option::None of an internal id.
None == -1

\* json_depth_checker::should_flatten_from_unchecked_slice: the value holds
\* an object (arrays of scalars and scalars do not need flattening).
should_flatten(value) == value[1] = "object"

\* flatten_serde_json::flatten on a map holding one nested field: the
\* object field `name` becomes the dotted key name.k.
flatten(name, value) ==
    <<name \o "." \o value[2][1],
      IF Len(value) = 3 THEN Array(value[2][2]) ELSE Scalar(value[2][2])>>

\* ------------------------------------------------------------ sequences

RECURSIVE SortedSeq(_)
\* The members of a finite set of integers, ascending.
SortedSeq(S) ==
    IF S = {} THEN <<>>
    ELSE LET m == CHOOSE x \in S : \A y \in S : x <= y
         IN <<m>> \o SortedSeq(S \ {m})

RECURSIVE InsertByKey(_, _)
\* Insert the pair kv into the key-sorted list s, after the pairs of equal key.
InsertByKey(s, kv) ==
    IF s = <<>> THEN <<kv>>
    ELSE IF kv[1] < s[1][1] THEN <<kv>> \o s
    ELSE <<s[1]>> \o InsertByKey(Tail(s), kv)

RECURSIVE SortByKey(_)
\* The pairs of the list by key, the pairs of equal key in the order the
\* list gives them: the one outcome of a sort by key on distinct keys, and
\* the arrangement the unstable sorts start from.
SortByKey(s) ==
    IF s = <<>> THEN <<>>
    ELSE InsertByKey(SortByKey(SubSeq(s, 1, Len(s) - 1)), s[Len(s)])

\* sort_unstable_by and sort_unstable_by_key on a list of (key, value): the
\* pairs by key. The order of pairs of equal key is not specified: `ties`
\* lists the pairs the sort leaves first among those of their key, in
\* that order; the other pairs follow in the order of the list. Every
\* arrangement by key of the list is the outcome of some `ties`.
sort_unstable_by_key(s, ties) ==
    LET Rank(kv) == IF \E i \in 1..Len(ties) : ties[i] = kv
                    THEN CHOOSE i \in 1..Len(ties) :
                             ties[i] = kv /\ \A j \in 1..(i - 1) : ties[j] # kv
                    ELSE Len(ties) + 1
        ranked == SortByKey([i \in 1..Len(s) |-> <<Rank(s[i]), s[i]>>])
    IN SortByKey([i \in 1..Len(ranked) |-> ranked[i][2]])

RECURSIVE SeqOf(_)
\* The members of a finite set in one list.
SeqOf(S) ==
    IF S = {} THEN <<>>
    ELSE LET x == CHOOSE y \in S : TRUE
         IN <<x>> \o SeqOf(S \ {x})

\* The keys of an obkv, and the value under a key.
Keys(obkv) == {obkv[i][1] : i \in 1..Len(obkv)}
Get(obkv, k) == (CHOOSE i \in 1..Len(obkv) : obkv[i][1] = k)
ValueOf(obkv, k) == obkv[Get(obkv, k)][2]

\* obkv::KvWriter::insert accepts strictly ascending keys only.
StrictlyAscending(obkv) == \A i \in 1..(Len(obkv) - 1) : obkv[i][1] < obkv[i + 1][1]

\* ---------------------------------------------------------- FieldsIdsMap

\* FieldsIdsMap: the list of names, the id of a name is its position - 1.
HasName(map, name) == \E i \in 1..Len(map) : map[i] = name
IdOf(map, name) == (CHOOSE i \in 1..Len(map) : map[i] = name) - 1
NameOf(map, id) == map[id + 1]

\* FieldsIdsMap::insert: the id of the name, a fresh one when the name is
\* new, None when no id is left.
fields_ids_map_insert(map, name) ==
    IF HasName(map, name) THEN [map |-> map, id |-> IdOf(map, name)]
    ELSE IF Len(map) >= MaxFields THEN [map |-> map, id |-> None]
    ELSE [map |-> Append(map, name), id |-> Len(map)]

\* -------------------------------------------------------- del/add records

\* into_del_add_obkv(reader, deletion, addition, buffer): every field keeps
\* its bytes on the sides asked for.
into_del_add_obkv(obkv, deletion, addition) ==
    [i \in 1..Len(obkv) |->
        <<obkv[i][1], [del |-> IF deletion THEN obkv[i][2] ELSE NoVal,
                       add |-> IF addition THEN obkv[i][2] ELSE NoVal]>>]

\* The fields of a del/add record that carry an addition side, as an obkv.
AdditionSide(da) == SelectSeq([i \in 1..Len(da) |-> <<da[i][1], da[i][2].add>>],
                              LAMBDA kv : kv[2] # NoVal)
\* The fields of a del/add record that carry a deletion side, as an obkv.
DeletionSide(da) == SelectSeq([i \in 1..Len(da) |-> <<da[i][1], da[i][2].del>>],
                              LAMBDA kv : kv[2] # NoVal)

\* ---------------------------------------------------------- merge reducers

\* merge_two_del_add_obkvs(base, update, merge_additions): the field-wise
\* merge of two del/add records. A field of the base alone is kept whole
\* when additions are merged and reduced to its deletion side otherwise; a
\* field of the update alone is kept whole; a field of both takes the newest
\* deletion and the newest addition (the base's addition only when additions
\* are merged).
MergedField(base, update, k, merge_additions) ==
    IF k \notin Keys(update)
    THEN LET b == ValueOf(base, k)
         IN IF merge_additions THEN <<<<k, b>>>>
            ELSE IF b.del # NoVal THEN <<<<k, [del |-> b.del, add |-> NoVal]>>>>
            ELSE <<>>
    ELSE IF k \notin Keys(base) THEN <<<<k, ValueOf(update, k)>>>>
    ELSE LET b == ValueOf(base, k)
             u == ValueOf(update, k)
         IN <<<<k, [del |-> IF u.del # NoVal THEN u.del ELSE b.del,
                    add |-> IF u.add # NoVal THEN u.add
                            ELSE IF merge_additions THEN b.add ELSE NoVal]>>>>

RECURSIVE MergeFields(_, _, _, _)
MergeFields(base, update, ks, merge_additions) ==
    IF ks = <<>> THEN <<>>
    ELSE MergedField(base, update, Head(ks), merge_additions)
         \o MergeFields(base, update, Tail(ks), merge_additions)

merge_two_del_add_obkvs(base, update, merge_additions) ==
    MergeFields(base, update, SortedSeq(Keys(base) \cup Keys(update)), merge_additions)

RECURSIVE inner_merge_del_add_obkvs(_, _, _)
\* The reducers' fold over the values of one key, oldest first, from the
\* accumulator acc: a Deletion input replaces what was accumulated, an
\* Addition input is merged into it and tags the result Addition.
inner_merge_del_add_obkvs(acc, obkvs, merge_additions) ==
    IF obkvs = <<>> THEN acc
    ELSE LET current == Head(obkvs)
             next == IF current.op = "Deletion" THEN current
                     ELSE [op |-> "Addition",
                           obkv |-> merge_two_del_add_obkvs(acc.obkv, current.obkv,
                                                            merge_additions)]
         IN inner_merge_del_add_obkvs(next, Tail(obkvs), merge_additions)

\* The update-mode reducer: merge additions and deletions.
obkvs_merge_additions_and_deletions(obkvs) ==
    inner_merge_del_add_obkvs(Head(obkvs), Tail(obkvs), TRUE)

\* The replace-mode reducer: keep the last addition, merge the deletions.
obkvs_keep_last_addition_merge_deletions(obkvs) ==
    inner_merge_del_add_obkvs(Head(obkvs), Tail(obkvs), FALSE)

\* A merge function that keeps the latest value of the key.
merge_function_keep_latest(method, obkvs) == obkvs[Len(obkvs)]

\* A merge function that merges every value as an addition.
merge_function_never_resets(method, obkvs) ==
    inner_merge_del_add_obkvs(Head(obkvs),
                              [i \in 1..(Len(obkvs) - 1) |->
                                  [op |-> "Addition", obkv |-> obkvs[i + 1].obkv]],
                              method # "ReplaceDocuments")

\* A merge function that merges the additions in both methods.
merge_function_always_merges_additions(method, obkvs) ==
    obkvs_merge_additions_and_deletions(obkvs)

\* A merge function that keeps the last addition in both methods.
merge_function_always_keeps_last_addition(method, obkvs) ==
    obkvs_keep_last_addition_merge_deletions(obkvs)

\* Transform::new: the merge function of the two sorters.
merge_function(method, obkvs) ==
    IF method = "ReplaceDocuments"
    THEN obkvs_keep_last_addition_merge_deletions(obkvs)
    ELSE obkvs_merge_additions_and_deletions(obkvs)

\* ------------------------------------------------------------- the sorters

\* A sorter maps each key inserted to the values [op, obkv] inserted under
\* it, in insertion order (SortAlgorithm::Stable keeps that order within a
\* key; the order between keys is the key order).
EmptySorter == [key \in {} |-> <<>>]
SorterKeys(sorter) == DOMAIN sorter
ValuesOf(sorter, key) == sorter[key]

\* grenad::Sorter::insert.
sorter_insert(sorter, key, op, obkv) ==
    [k \in DOMAIN sorter \cup {key} |->
        IF k = key
        THEN Append(IF key \in DOMAIN sorter THEN sorter[key] ELSE <<>>,
                    [op |-> op, obkv |-> obkv])
        ELSE sorter[k]]

RECURSIVE Spilled(_, _)
\* The chunks the sorter may write for the values of a key: when its memory
\* is full it writes the entries it holds as one chunk, the values of a key
\* merged in one call of the merge function, a single value as it is. The
\* values between two spills form a run, whatever their number.
Spilled(method, vs) ==
    IF vs = <<>> THEN {<<>>}
    ELSE UNION {LET run == SubSeq(vs, 1, n)
                    chunk == IF n = 1 THEN run[1] ELSE merge_function(method, run)
                IN {<<chunk>> \o rest : rest \in Spilled(method, SubSeq(vs, n + 1, Len(vs)))} :
                n \in 1..Len(vs)}

RECURSIVE MergedChunks(_, _)
\* The value the chunks of a key may end as: when the sorter holds
\* max_nb_chunks chunks it merges them into one, the values of a key in
\* one call in the order of the chunks, and into_stream_merger_iter merges
\* the chunks that are left. A key may be in any number of the chunks
\* merged.
MergedChunks(method, chunks_of_key) ==
    IF Len(chunks_of_key) = 1 THEN {chunks_of_key[1]}
    ELSE UNION {MergedChunks(method,
                             <<merge_function(method, SubSeq(chunks_of_key, 1, n))>>
                             \o SubSeq(chunks_of_key, n + 1, Len(chunks_of_key))) :
                n \in 2..Len(chunks_of_key)}

\* The values the sorter may yield for the values inserted under a key.
Merges(method, vs) == UNION {MergedChunks(method, cs) : cs \in Spilled(method, vs)}

\* The merged entries the sorter may yield for one key.
MergedEntries(sorter, key, method) ==
    {[key |-> key, op |-> m.op, obkv |-> m.obkv] : m \in Merges(method, ValuesOf(sorter, key))}

RECURSIVE MergedStreams(_, _, _)
\* The streams over the keys ks, one merged entry per key.
MergedStreams(sorter, method, ks) ==
    IF ks = <<>> THEN {<<>>}
    ELSE {<<entry>> \o rest : entry \in MergedEntries(sorter, Head(ks), method),
                              rest \in MergedStreams(sorter, method, Tail(ks))}

\* grenad::Sorter::into_stream_merger_iter: one merged entry per key, keys
\* ascending; the streams that the spills of the sorter may lead to.
into_stream_merger_iter(sorter, method) ==
    MergedStreams(sorter, method, SortedSeq(SorterKeys(sorter)))

\* -------------------------------------------------------------- flattener

RECURSIVE MergeCollisions(_)
\* A merge of the pairs that writes the two pairs of the same key.
MergeCollisions_keeps_both(key_value) == key_value

\* A merge of the pairs that keeps the first of two pairs of the same key.
MergeCollisions_keeps_first(key_value) ==
    IF Len(key_value) <= 1 THEN key_value
    ELSE IF key_value[1][1] = key_value[2][1]
    THEN <<<<key_value[1][1], Array(key_value[1][2][2])>>>>
         \o MergeCollisions(SubSeq(key_value, 3, Len(key_value)))
    ELSE <<key_value[1]>> \o MergeCollisions(Tail(key_value))

\* Transform::create_obkv_from_key_value: the pairs of a key-sorted list,
\* two consecutive pairs of the same key merged into one array.
MergeCollisions(key_value) ==
    IF Len(key_value) <= 1 THEN key_value
    ELSE LET one == key_value[1]
             two == key_value[2]
         IN IF one[1] = two[1]
            THEN LET value ==
                        IF one[2][1] = "array" /\ two[2][1] = "array"
                        THEN Array(one[2][2] \o two[2][2])
                        ELSE IF one[2][1] = "array" THEN Array(Append(one[2][2], two[2][2][1]))
                        ELSE IF two[2][1] = "array" THEN Array(Append(two[2][2], one[2][2][1]))
                        ELSE Array(one[2][2] \o two[2][2])
                 IN <<<<one[1], value>>>> \o MergeCollisions(SubSeq(key_value, 3, Len(key_value)))
            ELSE <<one>> \o MergeCollisions(Tail(key_value))

\* KvWriter::insert fails on a key that is not above the last one.
create_obkv_from_key_value(key_value) ==
    LET Written(obkv) == [obkv |-> obkv, err |-> IF StrictlyAscending(obkv) THEN "" ELSE "Io"]
    IN Written(MergeCollisions(key_value))

\* flatten_serde_json's insertion of a value under a key of its output map:
\* a key already there keeps its place and holds an array, its value (the
\* elements of its array) followed by the value inserted (the elements of
\* an array inserted one by one).
insert_value(base_json, key, to_insert) ==
    IF \E i \in 1..Len(base_json) : base_json[i][1] = key
    THEN [i \in 1..Len(base_json) |->
             IF base_json[i][1] = key
             THEN <<key, Array(base_json[i][2][2] \o to_insert[2])>>
             ELSE base_json[i]]
    ELSE Append(base_json, <<key, to_insert>>)

RECURSIVE FlattenDocument(_, _)
\* flatten_serde_json::flatten on the serde_json::Map of the whole document,
\* its fields in the order of their ids: a nested field gives its dotted
\* key, the other fields are kept, and the map holds each key once.
FlattenDocument(map, obkv) ==
    IF obkv = <<>> THEN <<>>
    ELSE LET field == obkv[Len(obkv)]
             Inserted(base_json, kv) == insert_value(base_json, kv[1], kv[2])
         IN Inserted(FlattenDocument(map, SubSeq(obkv, 1, Len(obkv) - 1)),
                     IF should_flatten(field[2]) THEN flatten(NameOf(map, field[1]), field[2])
                     ELSE <<NameOf(map, field[1]), field[2]>>)

RECURSIVE FlattenFields(_, _, _)
\* The loop of flatten_from_fields_ids_map over the flattened map: each
\* key is inserted in the fields ids map and pushed with its id after the
\* raw pairs. acc is [map, key_value, flattened, err].
FlattenFields(acc, flattened_json, i) ==
    IF i > Len(flattened_json) \/ acc.err # "" THEN acc
    ELSE LET Inserted(ins) ==
                 IF ins.id = None
                 THEN [acc EXCEPT !.err = "AttributeLimitReached"]
                 ELSE FlattenFields([acc EXCEPT !.map = ins.map,
                                                !.flattened = Append(@, <<ins.id, flattened_json[i][2]>>)],
                                    flattened_json, i + 1)
         IN Inserted(fields_ids_map_insert(acc.map, flattened_json[i][1]))

\* flatten_from_fields_ids_map, the sorted list handed to
\* create_obkv_from_key_value returned as well; `ties` is what the
\* unstable sort does with the pairs of equal key.
flatten_sorted(map, obkv, ties) ==
    IF \A i \in 1..Len(obkv) : ~should_flatten(obkv[i][2])
    THEN [map |-> map, flattened |-> FALSE, obkv |-> <<>>, err |-> "", key_value |-> <<>>]
    ELSE LET Made(acc, key_value, made) ==
                 [map |-> acc.map, flattened |-> TRUE, obkv |-> made.obkv, err |-> made.err,
                  key_value |-> key_value]
             Created(acc, key_value) ==
                 Made(acc, key_value, create_obkv_from_key_value(key_value))
             Sorted(acc) ==
                 IF acc.err # ""
                 THEN [map |-> acc.map, flattened |-> FALSE, obkv |-> <<>>, err |-> acc.err,
                       key_value |-> <<>>]
                 ELSE Created(acc, sort_unstable_by_key(acc.key_value \o acc.flattened,
                                                        ties))
             raw == SelectSeq(obkv, LAMBDA kv : ~should_flatten(kv[2]))
             doc == SelectSeq(obkv, LAMBDA kv : should_flatten(kv[2]))
         IN Sorted(FlattenFields([map |-> map, key_value |-> raw, flattened |-> <<>>,
                                  err |-> ""], FlattenDocument(map, doc), 1))

\* Transform::flatten_from_fields_ids_map: None (flattened = FALSE) when no
\* value is nested, else the flattened record; the fields ids map grows by
\* the dotted keys. `ties` is the outcome of the unstable sort at 526.
flatten_from_fields_ids_map(map, obkv, ties) ==
    LET Returned(r) == [map |-> r.map, flattened |-> r.flattened, obkv |-> r.obkv,
                        err |-> r.err]
    IN Returned(flatten_sorted(map, obkv, ties))

\* The pairs that the sort at 526 may leave before or after the pair of the
\* record that has their key: the flattened pairs of a collision.
Promotable(map, obkv) ==
    LET Second(key_value) ==
            {key_value[i + 1] : i \in {j \in 1..(Len(key_value) - 1) :
                                           key_value[j][1] = key_value[j + 1][1]}}
    IN Second(flatten_sorted(map, obkv, <<>>).key_value)

\* The outcomes of the sort on the pairs of the record.
Ties(map, obkv) == {SeqOf(S) : S \in SUBSET Promotable(map, obkv)}

\* ------------------------------------------------------ the persisted index

\* The external ids and the document bodies the calls draw from.
ExtIds == {"a", "b"}
Bodies == { <<<<"name", Scalar("x")>>>>,
            <<<<"name", Scalar("y")>>>>,
            <<<<"doggo", Object("name", "paul")>>>> }

\* The four persisted indexes a session may open (Index, read through
\* wtxn): the fields ids map, the primary key ("" when unset), the external
\* ids map, the documents, the live and the soft-deleted internal ids and
\* the field distribution.
EmptyIndex ==
    [fields_ids_map |-> <<>>, primary_key |-> "",
     external_documents_ids |-> [e \in {} |-> 0],
     documents |-> [d \in {} |-> <<>>],
     documents_ids |-> {}, soft_deleted_documents_ids |-> {},
     field_distribution |-> [n \in {} |-> 0]]
OneDocIndex ==
    [fields_ids_map |-> <<"id", "name", "age">>, primary_key |-> "id",
     external_documents_ids |-> [e \in {"a"} |-> 1],
     documents |-> [d \in {1} |-> <<<<0, Scalar("a")>>, <<1, Scalar("x")>>>>],
     documents_ids |-> {1}, soft_deleted_documents_ids |-> {0},
     field_distribution |-> [n \in {"id", "name"} |-> 1]]
TwoDocsIndex ==
    [fields_ids_map |-> <<"id", "name", "doggo", "doggo.name">>, primary_key |-> "id",
     external_documents_ids |-> [e \in {"a", "b"} |-> IF e = "a" THEN 0 ELSE 2],
     documents |-> [d \in {0, 2} |->
                      IF d = 0 THEN <<<<0, Scalar("a")>>, <<1, Scalar("x")>>>>
                      ELSE <<<<0, Scalar("b")>>, <<2, Object("name", "paul")>>>>],
     documents_ids |-> {0, 2}, soft_deleted_documents_ids |-> {},
     field_distribution |-> [n \in {"id", "name", "doggo"} |->
                               IF n = "id" THEN 2 ELSE 1]]
\* An index whose document holds a dotted key beside the object it comes
\* from.
CollidingIndex ==
    [fields_ids_map |-> <<"id", "doggo.name", "doggo">>, primary_key |-> "id",
     external_documents_ids |-> [e \in {"a"} |-> 0],
     documents |-> [d \in {0} |-> <<<<0, Scalar("a")>>, <<1, Scalar("jean")>>,
                                    <<2, Object("name", "paul")>>>>],
     documents_ids |-> {0}, soft_deleted_documents_ids |-> {},
     field_distribution |-> [n \in {"id", "doggo.name", "doggo"} |-> 1]]
Indexes == {EmptyIndex, OneDocIndex, TwoDocsIndex, CollidingIndex}

\* What the unstable sorts of one call may do with the pairs of equal key
\* of the persisted documents (the records of the payloads hold no two
\* pairs of one key): any of the flattened pairs of a collision first.
SortOutcomes(index) ==
    {SeqOf(S) : S \in SUBSET UNION {Promotable(index.fields_ids_map, index.documents[d]) :
                                       d \in DOMAIN index.documents}}

\* AvailableDocumentsIds::from_documents_ids: the ids outside the live and
\* the soft-deleted ones, ascending; next() takes the first.
AvailableDocumentsIds(documents_ids, soft_deleted_documents_ids) ==
    SortedSeq((0..MaxDocId) \ (documents_ids \cup soft_deleted_documents_ids))

\* ------------------------------------------------------------ the inputs

\* A document of a batch before it is encoded: its external id, whether
\* that id was generated by the enrichment (the document then lacks the
\* primary key field), and its fields in the order of the payload. The
\* documents with a generated id carry the first body only.
GeneratedBody == <<<<"name", Scalar("x")>>>>
RawDocs ==
    {[external_id |-> e, generated |-> FALSE, fields |-> <<<<"id", Scalar(e)>>>> \o b] :
        e \in ExtIds, b \in Bodies}
    \cup {[external_id |-> e, generated |-> TRUE, fields |-> GeneratedBody] : e \in ExtIds}

RECURSIVE SeqsUpTo(_, _)
\* The lists of at most n members of S.
SeqsUpTo(S, n) ==
    IF n = 0 THEN {<<>>}
    ELSE LET shorter == SeqsUpTo(S, n - 1)
         IN shorter \cup {Append(s, x) : s \in {t \in shorter : Len(t) = n - 1}, x \in S}

RECURSIVE BatchIndex(_, _)
\* DocumentsBatchIndex: the names of the batch in the order they are first
\* met, the batch-local id of a name is its position - 1.
BatchIndex(index, names) ==
    IF names = <<>> THEN index
    ELSE BatchIndex(IF HasName(index, Head(names)) THEN index ELSE Append(index, Head(names)),
                    Tail(names))

RECURSIVE NamesOf(_)
NamesOf(raws) ==
    IF raws = <<>> THEN <<>>
    ELSE [i \in 1..Len(Head(raws).fields) |-> Head(raws).fields[i][1]] \o NamesOf(Tail(raws))

\* EnrichedDocumentsBatchReader over the raw documents: the batch index,
\* the primary key and the documents as obkvs over the batch-local ids.
Reader(raws) ==
    LET fields_index == BatchIndex(<<>>, NamesOf(raws))
    IN [fields_index |-> fields_index,
        primary_key |-> "id",
        documents |->
            [i \in 1..Len(raws) |->
                [document |-> SortByKey([j \in 1..Len(raws[i].fields) |->
                                  <<IdOf(fields_index, raws[i].fields[j][1]),
                                    raws[i].fields[j][2]>>]),
                 document_id |-> [value |-> raws[i].external_id,
                                  generated |-> raws[i].generated]]]]

\* ----------------------------------------------------------- read_documents

RECURSIVE MapFields(_, _, _)
\* The iteration of create_fields_mapping over the batch-local ids,
\* ascending: acc is [map, mapping, err], mapping[l + 1] the index-global id
\* of the batch-local id l. The first failing insert stops it and keeps the
\* names inserted before.
MapFields(acc, batch_field_map, i) ==
    IF i > Len(batch_field_map) THEN acc
    ELSE LET ins == fields_ids_map_insert(acc.map, batch_field_map[i])
         IN IF ins.id = None THEN [acc EXCEPT !.err = "AttributeLimitReached"]
            ELSE MapFields([acc EXCEPT !.map = ins.map, !.mapping = Append(@, ins.id)],
                           batch_field_map, i + 1)

create_fields_mapping(index_field_map, batch_field_map) ==
    MapFields([map |-> index_field_map, mapping |-> <<>>, err |-> ""], batch_field_map, 1)

\* The canonical record of a document: the generated primary key, the
\* fields under their index-global ids, sorted by field id.
obkv_of_document(mapping, primary_key_id, enriched_document, ties) ==
    LET document == enriched_document.document
        document_id == enriched_document.document_id
        docid_field == IF document_id.generated
                       THEN <<<<primary_key_id, Scalar(document_id.value)>>>>
                       ELSE <<>>
    IN sort_unstable_by_key(
           docid_field
           \o [j \in 1..Len(document) |-> <<mapping[document[j][1] + 1], document[j][2]>>],
           ties)

\* HashMap::insert and HashMap::remove on the external ids builder.
builder_insert(builder, external_id, docid) ==
    [e \in DOMAIN builder \cup {external_id} |->
        IF e = external_id THEN docid ELSE builder[e]]
builder_remove(builder, external_id) ==
    [e \in DOMAIN builder \ {external_id} |-> builder[e]]

\* docid_of_document that does not record a persisted id as replaced.
docid_of_document_not_replaced(t, external_documents_ids, external_id) ==
    IF external_id \in DOMAIN t.new_external_documents_ids_builder
    THEN [t |-> t, docid |-> t.new_external_documents_ids_builder[external_id],
          original_docid |-> None, err |-> ""]
    ELSE IF external_id \in DOMAIN external_documents_ids
    THEN LET docid == external_documents_ids[external_id]
         IN [t |-> [t EXCEPT !.new_external_documents_ids_builder =
                                 builder_insert(@, external_id, docid)],
             docid |-> docid,
             original_docid |-> IF docid \notin t.replaced_documents_ids THEN docid
                                ELSE None,
             err |-> ""]
    ELSE IF t.available_documents_ids = <<>>
    THEN [t |-> t, docid |-> None, original_docid |-> None, err |-> "DocumentLimitReached"]
    ELSE LET docid == Head(t.available_documents_ids)
         IN [t |-> [t EXCEPT !.available_documents_ids = Tail(@),
                             !.new_external_documents_ids_builder =
                                 builder_insert(@, external_id, docid)],
             docid |-> docid, original_docid |-> None, err |-> ""]

\* docid_of_document that reports the persisted id as original even when it
\* is already in the replaced ids.
docid_of_document_always_original(t, external_documents_ids, external_id) ==
    IF external_id \in DOMAIN t.new_external_documents_ids_builder
    THEN [t |-> t, docid |-> t.new_external_documents_ids_builder[external_id],
          original_docid |-> None, err |-> ""]
    ELSE IF external_id \in DOMAIN external_documents_ids
    THEN LET docid == external_documents_ids[external_id]
         IN [t |-> [t EXCEPT !.replaced_documents_ids = @ \cup {docid},
                             !.new_external_documents_ids_builder =
                                 builder_insert(@, external_id, docid)],
             docid |-> docid, original_docid |-> docid, err |-> ""]
    ELSE IF t.available_documents_ids = <<>>
    THEN [t |-> t, docid |-> None, original_docid |-> None, err |-> "DocumentLimitReached"]
    ELSE LET docid == Head(t.available_documents_ids)
         IN [t |-> [t EXCEPT !.available_documents_ids = Tail(@),
                             !.new_external_documents_ids_builder =
                                 builder_insert(@, external_id, docid)],
             docid |-> docid, original_docid |-> None, err |-> ""]

\* The same, with an allocator that peeks at the next available id and
\* leaves it available.
docid_of_document_reissues(t, external_documents_ids, external_id) ==
    IF external_id \in DOMAIN t.new_external_documents_ids_builder
    THEN [t |-> t, docid |-> t.new_external_documents_ids_builder[external_id],
          original_docid |-> None, err |-> ""]
    ELSE IF external_id \in DOMAIN external_documents_ids
    THEN LET docid == external_documents_ids[external_id]
         IN [t |-> [t EXCEPT !.replaced_documents_ids = @ \cup {docid},
                             !.new_external_documents_ids_builder =
                                 builder_insert(@, external_id, docid)],
             docid |-> docid,
             original_docid |-> IF docid \notin t.replaced_documents_ids THEN docid
                                ELSE None,
             err |-> ""]
    ELSE IF t.available_documents_ids = <<>>
    THEN [t |-> t, docid |-> None, original_docid |-> None, err |-> "DocumentLimitReached"]
    ELSE LET docid == Head(t.available_documents_ids)
         IN [t |-> [t EXCEPT !.new_external_documents_ids_builder =
                                 builder_insert(@, external_id, docid)],
             docid |-> docid, original_docid |-> None, err |-> ""]

\* The internal id of the document: the one of the builder, else the
\* persisted one (original_docid is set when the id enters the replaced
\* ids for the first time), else the next available one.
docid_of_document(t, external_documents_ids, external_id) ==
    IF external_id \in DOMAIN t.new_external_documents_ids_builder
    THEN [t |-> t, docid |-> t.new_external_documents_ids_builder[external_id],
          original_docid |-> None, err |-> ""]
    ELSE IF external_id \in DOMAIN external_documents_ids
    THEN LET docid == external_documents_ids[external_id]
         IN [t |-> [t EXCEPT !.replaced_documents_ids = @ \cup {docid},
                             !.new_external_documents_ids_builder =
                                 builder_insert(@, external_id, docid)],
             docid |-> docid,
             original_docid |-> IF docid \notin t.replaced_documents_ids THEN docid
                                ELSE None,
             err |-> ""]
    ELSE IF t.available_documents_ids = <<>>
    THEN [t |-> t, docid |-> None, original_docid |-> None, err |-> "DocumentLimitReached"]
    ELSE LET docid == Head(t.available_documents_ids)
         IN [t |-> [t EXCEPT !.available_documents_ids = Tail(@),
                             !.new_external_documents_ids_builder =
                                 builder_insert(@, external_id, docid)],
             docid |-> docid, original_docid |-> None, err |-> ""]

\* insert_in_sorters that gives the flattened sorter only the records that
\* needed flattening.
insert_in_sorters_nested_only(t, docid, op, obkv, deletion, addition) ==
    LET del_add == into_del_add_obkv(obkv, deletion, addition)
        Flattened(t1, flat) ==
            IF flat.err # "" THEN [t |-> t1, err |-> flat.err]
            ELSE [t |-> [t1 EXCEPT !.flattened_sorter =
                             IF flat.flattened
                             THEN sorter_insert(@, docid, op,
                                                into_del_add_obkv(flat.obkv, deletion,
                                                                  addition))
                             ELSE @],
                  err |-> ""]
        Original(flat) ==
            Flattened([t EXCEPT !.original_sorter = sorter_insert(@, docid, op, del_add),
                                !.fields_ids_map = flat.map],
                      flat)
    IN Original(flatten_from_fields_ids_map(t.fields_ids_map, obkv, t.ties))

\* One record in the original sorter and its flattened version in the
\* flattened sorter, under the same key and operation; a failing flattening
\* leaves the original sorter one entry ahead.
insert_in_sorters(t, docid, op, obkv, deletion, addition) ==
    LET del_add == into_del_add_obkv(obkv, deletion, addition)
        Flattened(t1, flat) ==
            IF flat.err # "" THEN [t |-> t1, err |-> flat.err]
            ELSE [t |-> [t1 EXCEPT !.flattened_sorter =
                             sorter_insert(@, docid, op,
                                           IF flat.flattened
                                           THEN into_del_add_obkv(flat.obkv, deletion, addition)
                                           ELSE del_add)],
                  err |-> ""]
        Original(flat) ==
            Flattened([t EXCEPT !.original_sorter = sorter_insert(@, docid, op, del_add),
                                !.fields_ids_map = flat.map],
                      flat)
    IN Original(flatten_from_fields_ids_map(t.fields_ids_map, obkv, t.ties))

\* replace_original whose short-circuit leaves the id in the replaced ids.
replace_original_keeps_replaced(t, index, method, docid, original_docid, obkv_buffer, external_id) ==
    IF original_docid = None THEN [t |-> t, skip_insertion |-> FALSE, err |-> ""]
    ELSE IF original_docid \notin DOMAIN index.documents
    THEN [t |-> t, skip_insertion |-> FALSE, err |-> "DatabaseMissingEntry"]
    ELSE LET base_obkv == index.documents[original_docid]
         IN IF base_obkv = obkv_buffer
            THEN [t |-> [t EXCEPT !.new_external_documents_ids_builder =
                                      builder_remove(@, external_id)],
                  skip_insertion |-> TRUE, err |-> ""]
            ELSE LET Inserted(ins) == [t |-> ins.t, skip_insertion |-> FALSE, err |-> ins.err]
                 IN Inserted(insert_in_sorters(t, docid, "Addition", base_obkv, TRUE,
                                               method = "UpdateDocuments"))

\* replace_original that leaves the builder entry in place when the new
\* record equals the base.
replace_original_keeps_builder_entry(t, index, method, docid, original_docid, obkv_buffer, external_id) ==
    IF original_docid = None THEN [t |-> t, skip_insertion |-> FALSE, err |-> ""]
    ELSE IF original_docid \notin DOMAIN index.documents
    THEN [t |-> t, skip_insertion |-> FALSE, err |-> "DatabaseMissingEntry"]
    ELSE LET base_obkv == index.documents[original_docid]
         IN IF base_obkv = obkv_buffer
            THEN [t |-> [t EXCEPT !.replaced_documents_ids = @ \ {original_docid}],
                  skip_insertion |-> TRUE, err |-> ""]
            ELSE LET Inserted(ins) == [t |-> ins.t, skip_insertion |-> FALSE, err |-> ins.err]
                 IN Inserted(insert_in_sorters(t, docid, "Addition", base_obkv, TRUE,
                                               method = "UpdateDocuments"))

\* replace_original that never inserts the persisted version.
replace_original_without_base(t, index, method, docid, original_docid, obkv_buffer, external_id) ==
    IF original_docid = None THEN [t |-> t, skip_insertion |-> FALSE, err |-> ""]
    ELSE IF original_docid \notin DOMAIN index.documents
    THEN [t |-> t, skip_insertion |-> FALSE, err |-> "DatabaseMissingEntry"]
    ELSE IF index.documents[original_docid] = obkv_buffer
    THEN [t |-> [t EXCEPT !.replaced_documents_ids = @ \ {original_docid},
                          !.new_external_documents_ids_builder =
                              builder_remove(@, external_id)],
          skip_insertion |-> TRUE, err |-> ""]
    ELSE [t |-> t, skip_insertion |-> FALSE, err |-> ""]

\* The persisted version of a replaced document: skipped when it equals the
\* new record (the replaced id and the builder entry are put back), else
\* inserted as an Addition that deletes the base and, in update mode, keeps
\* it as addition too.
replace_original(t, index, method, docid, original_docid, obkv_buffer, external_id) ==
    IF original_docid = None THEN [t |-> t, skip_insertion |-> FALSE, err |-> ""]
    ELSE IF original_docid \notin DOMAIN index.documents
    THEN [t |-> t, skip_insertion |-> FALSE, err |-> "DatabaseMissingEntry"]
    ELSE LET base_obkv == index.documents[original_docid]
         IN IF base_obkv = obkv_buffer
            THEN [t |-> [t EXCEPT !.replaced_documents_ids = @ \ {original_docid},
                                  !.new_external_documents_ids_builder =
                                      builder_remove(@, external_id)],
                  skip_insertion |-> TRUE, err |-> ""]
            ELSE LET Inserted(ins) == [t |-> ins.t, skip_insertion |-> FALSE, err |-> ins.err]
                 IN Inserted(insert_in_sorters(t, docid, "Addition", base_obkv, TRUE,
                                               method = "UpdateDocuments"))

\* insert_document that leaves the new documents ids as they are.
insert_document_without_new_id(t, docid, obkv_buffer) ==
    insert_in_sorters(t, docid, "Addition", obkv_buffer, FALSE, TRUE)

\* The new record under its internal id, as an Addition without deletion
\* side; the id enters the new documents ids.
insert_document(t, docid, obkv_buffer) ==
    insert_in_sorters([t EXCEPT !.new_documents_ids = @ \cup {docid}],
                      docid, "Addition", obkv_buffer, FALSE, TRUE)

\* One iteration of the loop of read_documents, after should_abort.
read_document(t, index, method, mapping, primary_key_id, enriched_document) ==
    LET external_id == enriched_document.document_id.value
        Insert(obkv_buffer, found, base) ==
            IF base.err # "" THEN [t |-> base.t, err |-> base.err]
            ELSE IF base.skip_insertion THEN [t |-> base.t, err |-> ""]
            ELSE insert_document(base.t, found.docid, obkv_buffer)
        Base(obkv_buffer, found) ==
            IF found.err # "" THEN [t |-> found.t, err |-> found.err]
            ELSE Insert(obkv_buffer, found,
                        replace_original(found.t, index, method, found.docid,
                                         found.original_docid, obkv_buffer, external_id))
        Docid(obkv_buffer) ==
            IF ~StrictlyAscending(obkv_buffer) THEN [t |-> t, err |-> "Io"]
            ELSE Base(obkv_buffer,
                      docid_of_document(t, index.external_documents_ids, external_id))
    IN Docid(obkv_of_document(mapping, primary_key_id, enriched_document, t.ties))

RECURSIVE ReadLoop_polls_after(_, _, _, _, _, _, _, _)
\* The loop of read_documents with should_abort polled after the record.
ReadLoop_polls_after(t, index, method, mapping, primary_key_id, documents, i, abort_at) ==
    IF i > Len(documents) THEN [t |-> t, err |-> "", documents_count |-> i - 1]
    ELSE LET Continue(one) ==
                 IF one.err # "" THEN [t |-> one.t, err |-> one.err, documents_count |-> i - 1]
                 ELSE IF i = abort_at
                 THEN [t |-> one.t, err |-> "AbortedIndexation", documents_count |-> i - 1]
                 ELSE ReadLoop_polls_after(one.t, index, method, mapping, primary_key_id,
                                           documents, i + 1, abort_at)
         IN Continue(read_document(t, index, method, mapping, primary_key_id, documents[i]))

RECURSIVE ReadLoop(_, _, _, _, _, _, _, _)
\* The loop of read_documents from the i-th document on; should_abort
\* answers true at its abort_at-th poll (never when abort_at = 0).
ReadLoop(t, index, method, mapping, primary_key_id, documents, i, abort_at) ==
    IF i > Len(documents) THEN [t |-> t, err |-> "", documents_count |-> i - 1]
    ELSE IF i = abort_at THEN [t |-> t, err |-> "AbortedIndexation", documents_count |-> i - 1]
    ELSE LET Continue(one) ==
                 IF one.err # "" THEN [t |-> one.t, err |-> one.err, documents_count |-> i - 1]
                 ELSE ReadLoop(one.t, index, method, mapping, primary_key_id, documents,
                               i + 1, abort_at)
         IN Continue(read_document(t, index, method, mapping, primary_key_id, documents[i]))

\* add_documents_count that assigns the count of the call.
add_documents_count_assigns(t, documents_count) ==
    [t EXCEPT !.documents_count = documents_count]

\* self.documents_count += documents_count, at the end of a successful call.
add_documents_count(t, documents_count) ==
    [t EXCEPT !.documents_count = @ + documents_count]

\* read_documents that puts the fields ids map and the primary key in the
\* index before its loop, so also when the loop fails.
read_documents_puts_before_loop(t, index, method, reader, abort_at) ==
    LET Finish(loop) ==
            IF loop.err # ""
            THEN [t |-> loop.t, err |-> loop.err, ret |-> 0, put |-> TRUE,
                  processed |-> loop.documents_count]
            ELSE [t |-> add_documents_count(loop.t, loop.documents_count),
                  err |-> "", ret |-> loop.documents_count, put |-> TRUE,
                  processed |-> loop.documents_count]
        Loop(fm, pk, t0) ==
            IF pk.id = None
            THEN [t |-> t0, err |-> "AttributeLimitReached", ret |-> 0, put |-> FALSE,
                  processed |-> 0]
            ELSE Finish(ReadLoop(t0, index, method, fm.mapping, pk.id, reader.documents, 1,
                                 abort_at))
        PrimaryKey(fm, pk) == Loop(fm, pk, [t EXCEPT !.fields_ids_map = pk.map])
        Mapped(fm) ==
            IF fm.err # ""
            THEN [t |-> [t EXCEPT !.fields_ids_map = fm.map], err |-> fm.err, ret |-> 0,
                  put |-> FALSE, processed |-> 0]
            ELSE PrimaryKey(fm, fields_ids_map_insert(fm.map, reader.primary_key))
    IN Mapped(create_fields_mapping(t.fields_ids_map, reader.fields_index))

\* Transform::read_documents: the session after the call, its error ("" on
\* success), the number it returns, whether the fields ids map and the
\* primary key were put in the index, and the number of documents the loop
\* went through.
read_documents(t, index, method, reader, abort_at) ==
    LET Finish(loop) ==
            IF loop.err # ""
            THEN [t |-> loop.t, err |-> loop.err, ret |-> 0, put |-> FALSE,
                  processed |-> loop.documents_count]
            ELSE [t |-> add_documents_count(loop.t, loop.documents_count),
                  err |-> "", ret |-> loop.documents_count, put |-> TRUE,
                  processed |-> loop.documents_count]
        Loop(fm, pk, t0) ==
            IF pk.id = None
            THEN [t |-> t0, err |-> "AttributeLimitReached", ret |-> 0, put |-> FALSE,
                  processed |-> 0]
            ELSE Finish(ReadLoop(t0, index, method, fm.mapping, pk.id, reader.documents, 1,
                                 abort_at))
        PrimaryKey(fm, pk) == Loop(fm, pk, [t EXCEPT !.fields_ids_map = pk.map])
        Mapped(fm) ==
            IF fm.err # ""
            THEN [t |-> [t EXCEPT !.fields_ids_map = fm.map], err |-> fm.err, ret |-> 0,
                  put |-> FALSE, processed |-> 0]
            ELSE PrimaryKey(fm, fields_ids_map_insert(fm.map, reader.primary_key))
    IN Mapped(create_fields_mapping(t.fields_ids_map, reader.fields_index))

\* --------------------------------------------------------- remove_documents

\* The external ids in their byte order.
ExtOrder == <<"a", "b">>

RECURSIVE SortedCopies(_, _)
\* The members of to_remove in the given order, each as often as it is given.
SortedCopies(order, to_remove) ==
    IF order = <<>> THEN <<>>
    ELSE SelectSeq(to_remove, LAMBDA e : e = Head(order))
         \o SortedCopies(Tail(order), to_remove)

\* to_remove.sort_unstable() without to_remove.dedup().
sort_without_dedup(to_remove) == SortedCopies(ExtOrder, to_remove)

\* to_remove.sort_unstable(); to_remove.dedup().
sort_dedup(to_remove) ==
    SelectSeq(ExtOrder, LAMBDA e : \E i \in 1..Len(to_remove) : to_remove[i] = e)

\* delete_from_current without entry.remove_entry(): the external id stays
\* in the builder.
delete_from_current_keeps_entry(t, external_id) ==
    IF external_id \in DOMAIN t.new_external_documents_ids_builder
    THEN LET doc_id == t.new_external_documents_ids_builder[external_id]
         IN [t |-> [t EXCEPT
                      !.original_sorter = sorter_insert(@, doc_id, "Deletion", <<>>),
                      !.flattened_sorter = sorter_insert(@, doc_id, "Deletion", <<>>),
                      !.new_documents_ids = @ \ {doc_id}],
             deleted |-> TRUE]
    ELSE [t |-> t, deleted |-> FALSE]

\* delete_from_current that takes the removed document out of the documents
\* count.
delete_from_current_uncounts(t, external_id) ==
    IF external_id \in DOMAIN t.new_external_documents_ids_builder
    THEN LET doc_id == t.new_external_documents_ids_builder[external_id]
         IN [t |-> [t EXCEPT
                      !.original_sorter = sorter_insert(@, doc_id, "Deletion", <<>>),
                      !.flattened_sorter = sorter_insert(@, doc_id, "Deletion", <<>>),
                      !.new_documents_ids = @ \ {doc_id},
                      !.new_external_documents_ids_builder = builder_remove(@, external_id),
                      !.documents_count = @ - 1],
             deleted |-> TRUE]
    ELSE [t |-> t, deleted |-> FALSE]

\* delete_from_current that inserts nothing in the sorters.
delete_from_current_without_deletion(t, external_id) ==
    IF external_id \in DOMAIN t.new_external_documents_ids_builder
    THEN LET doc_id == t.new_external_documents_ids_builder[external_id]
         IN [t |-> [t EXCEPT
                      !.new_documents_ids = @ \ {doc_id},
                      !.new_external_documents_ids_builder = builder_remove(@, external_id)],
             deleted |-> TRUE]
    ELSE [t |-> t, deleted |-> FALSE]

\* delete_from_current that records the id as replaced.
delete_from_current_marks_replaced(t, external_id) ==
    IF external_id \in DOMAIN t.new_external_documents_ids_builder
    THEN LET doc_id == t.new_external_documents_ids_builder[external_id]
         IN [t |-> [t EXCEPT
                      !.original_sorter = sorter_insert(@, doc_id, "Deletion", <<>>),
                      !.flattened_sorter = sorter_insert(@, doc_id, "Deletion", <<>>),
                      !.new_documents_ids = @ \ {doc_id},
                      !.new_external_documents_ids_builder = builder_remove(@, external_id),
                      !.replaced_documents_ids = @ \cup {doc_id}],
             deleted |-> TRUE]
    ELSE [t |-> t, deleted |-> FALSE]

\* The document was added by the session: an empty Deletion under its id in
\* both sorters, the id leaves the new documents ids and the external id
\* leaves the builder. The replaced documents ids are not touched.
delete_from_current(t, external_id) ==
    IF external_id \in DOMAIN t.new_external_documents_ids_builder
    THEN LET doc_id == t.new_external_documents_ids_builder[external_id]
         IN [t |-> [t EXCEPT
                      !.original_sorter = sorter_insert(@, doc_id, "Deletion", <<>>),
                      !.flattened_sorter = sorter_insert(@, doc_id, "Deletion", <<>>),
                      !.new_documents_ids = @ \ {doc_id},
                      !.new_external_documents_ids_builder = builder_remove(@, external_id)],
             deleted |-> TRUE]
    ELSE [t |-> t, deleted |-> FALSE]

\* delete_from_db that leaves the replaced documents ids as they are.
delete_from_db_not_replaced(t, index, external_id) ==
    IF external_id \in DOMAIN index.external_documents_ids
    THEN LET docid == index.external_documents_ids[external_id]
             Inserted(ins) == [t |-> ins.t, deleted |-> ins.err = "", err |-> ins.err]
         IN IF docid \notin DOMAIN index.documents
            THEN [t |-> t, deleted |-> FALSE, err |-> "DatabaseMissingEntry"]
            ELSE Inserted(insert_in_sorters(t, docid, "Deletion", index.documents[docid],
                                            TRUE, FALSE))
    ELSE [t |-> t, deleted |-> FALSE, err |-> ""]

\* The document is in the index: its id enters the replaced documents ids
\* and its persisted version goes to both sorters as a Deletion.
delete_from_db(t, index, external_id) ==
    IF external_id \in DOMAIN index.external_documents_ids
    THEN LET docid == index.external_documents_ids[external_id]
             t1 == [t EXCEPT !.replaced_documents_ids = @ \cup {docid}]
             Inserted(ins) == [t |-> ins.t, deleted |-> ins.err = "", err |-> ins.err]
         IN IF docid \notin DOMAIN index.documents
            THEN [t |-> t1, deleted |-> FALSE, err |-> "DatabaseMissingEntry"]
            ELSE Inserted(insert_in_sorters(t1, docid, "Deletion", index.documents[docid],
                                            TRUE, FALSE))
    ELSE [t |-> t, deleted |-> FALSE, err |-> ""]

\* deletion_counted that counts every id of the list.
deletion_counted_always(deleted_from_current, deleted_from_db) == 1

\* The counter grows only if the document existed somewhere before.
deletion_counted(deleted_from_current, deleted_from_db) ==
    IF deleted_from_current \/ deleted_from_db THEN 1 ELSE 0

\* One iteration of the loop of remove_documents, after should_abort.
remove_document(t, index, external_id) ==
    LET Counted(current, db) ==
            [t |-> db.t, err |-> db.err,
             counted |-> deletion_counted(current.deleted, db.deleted)]
        FromDb(current) == Counted(current, delete_from_db(current.t, index, external_id))
    IN FromDb(delete_from_current(t, external_id))

RECURSIVE RemoveLoop(_, _, _, _, _, _)
RemoveLoop(t, index, to_remove, i, abort_at, documents_deleted) ==
    IF i > Len(to_remove) THEN [t |-> t, err |-> "", ret |-> documents_deleted,
                                processed |-> i - 1]
    ELSE IF i = abort_at
    THEN [t |-> t, err |-> "AbortedIndexation", ret |-> 0, processed |-> i - 1]
    ELSE LET Continue(one) ==
                 IF one.err # ""
                 THEN [t |-> one.t, err |-> one.err, ret |-> 0, processed |-> i - 1]
                 ELSE RemoveLoop(one.t, index, to_remove, i + 1, abort_at,
                                 documents_deleted + one.counted)
         IN Continue(remove_document(t, index, to_remove[i]))

\* Transform::remove_documents: the session after the call, its error and
\* the number of deleted documents it returns.
remove_documents(t, index, to_remove, abort_at) ==
    RemoveLoop(t, index, sort_dedup(to_remove), 1, abort_at, 0)

\* ------------------------------------------------------- output_from_sorter

\* *field -= 1, the name removed at zero; *entry.or_insert(0) += 1.
distribution_decrement(field_distribution, name) ==
    IF field_distribution[name] = 1
    THEN [n \in DOMAIN field_distribution \ {name} |-> field_distribution[n]]
    ELSE [field_distribution EXCEPT ![name] = @ - 1]
distribution_increment(field_distribution, name) ==
    [n \in DOMAIN field_distribution \cup {name} |->
        IF n \in DOMAIN field_distribution
        THEN field_distribution[n] + (IF n = name THEN 1 ELSE 0)
        ELSE 1]

RECURSIVE DecrementFields(_, _, _, _)
\* acc is [field_distribution, err]: one decrement per field of the obkv.
DecrementFields(acc, map, obkv, i) ==
    IF i > Len(obkv) \/ acc.err # "" THEN acc
    ELSE LET name == NameOf(map, obkv[i][1])
         IN IF name \notin DOMAIN acc.field_distribution
            THEN [acc EXCEPT !.err = "FieldIdMapMissingEntry"]
            ELSE DecrementFields([acc EXCEPT !.field_distribution =
                                      distribution_decrement(@, name)], map, obkv, i + 1)

RECURSIVE RemoveDeleted(_, _, _, _)
RemoveDeleted(acc, t, index, docids) ==
    IF docids = <<>> \/ acc.err # "" THEN acc
    ELSE IF Head(docids) \notin DOMAIN index.documents
    THEN [acc EXCEPT !.err = "DatabaseMissingEntry"]
    ELSE RemoveDeleted(DecrementFields(acc, t.fields_ids_map, index.documents[Head(docids)], 1),
                       t, index, Tail(docids))

\* Transform::remove_deleted_documents_from_field_distribution.
remove_deleted_documents_from_field_distribution(t, index, field_distribution) ==
    RemoveDeleted([field_distribution |-> field_distribution, err |-> ""], t, index,
                  SortedSeq(t.replaced_documents_ids))

RECURSIVE IncrementFields(_, _, _, _)
\* One increment per key of the merged del/add record.
IncrementFields(field_distribution, map, obkv, i) ==
    IF i > Len(obkv) THEN field_distribution
    ELSE IncrementFields(distribution_increment(field_distribution, NameOf(map, obkv[i][1])),
                         map, obkv, i + 1)

RECURSIVE AddDocuments(_, _, _, _)
AddDocuments(field_distribution, map, stream, i) ==
    IF i > Len(stream) THEN field_distribution
    ELSE AddDocuments(IncrementFields(field_distribution, map, stream[i].obkv, 1),
                      map, stream, i + 1)

\* The file written from a merged stream: the entries without their
\* operation byte.
written(stream) == [i \in 1..Len(stream) |-> <<stream[i].key, stream[i].obkv>>]

\* The fst map of the builder: its entries sorted by external id.
fst_map(builder) ==
    LET es == SelectSeq(ExtOrder, LAMBDA e : e \in DOMAIN builder)
    IN [i \in 1..Len(es) |-> <<es[i], builder[es[i]]>>]

\* Transform::output_from_sorter: the error ("" on success) and the
\* TransformOutput. The two sorters yield the streams t.original_stream
\* and t.flattened_stream, one of into_stream_merger_iter each.
output_from_sorter(t, index, method) ==
    LET Output(removed, original, flattened) ==
            [err |-> "",
             output |->
                [primary_key |-> index.primary_key,
                 fields_ids_map |-> t.fields_ids_map,
                 field_distribution |->
                     AddDocuments(removed.field_distribution, t.fields_ids_map, original, 1),
                 new_external_documents_ids |->
                     fst_map(t.new_external_documents_ids_builder),
                 new_documents_ids |-> t.new_documents_ids,
                 replaced_documents_ids |-> t.replaced_documents_ids,
                 documents_count |-> t.documents_count,
                 original_documents |-> written(original),
                 flattened_documents |-> written(flattened)]]
        Removed(removed) ==
            IF removed.err # "" THEN [err |-> removed.err, output |-> <<>>]
            ELSE Output(removed, t.original_stream, t.flattened_stream)
    IN IF index.primary_key = "" THEN [err |-> "DatabaseMissingEntry", output |-> <<>>]
       ELSE Removed(remove_deleted_documents_from_field_distribution(
                        t, index, index.field_distribution))

\* ---------------------------------------------------------- re-indexing

RECURSIVE ReorderFields(_, _, _, _)
\* The loop of prepare_for_documents_reindexing over the new fields ids map:
\* from id on, the fields of the document under the ids of the new map.
ReorderFields(old_fields_ids_map, new_fields_ids_map, obkv, id) ==
    IF id >= Len(new_fields_ids_map) THEN <<>>
    ELSE LET name == NameOf(new_fields_ids_map, id)
             kept == IF HasName(old_fields_ids_map, name)
                        /\ IdOf(old_fields_ids_map, name) \in Keys(obkv)
                     THEN <<<<id, ValueOf(obkv, IdOf(old_fields_ids_map, name))>>>>
                     ELSE <<>>
         IN kept \o ReorderFields(old_fields_ids_map, new_fields_ids_map, obkv, id + 1)

RECURSIVE InsertFlattened(_, _, _)
\* The loop over the flattened fields, the known ones first: each gets its
\* id of the new map, a fresh one when the name is new, and the writer
\* refuses an id that is not above the last one. acc is [map, obkv, err].
InsertFlattened(acc, flattened, i) ==
    IF i > Len(flattened) \/ acc.err # "" THEN acc
    ELSE LET Inserted(ins) ==
                 IF ins.id = None THEN [acc EXCEPT !.err = "AttributeLimitReached"]
                 ELSE IF acc.obkv # <<>> /\ acc.obkv[Len(acc.obkv)][1] >= ins.id
                 THEN [acc EXCEPT !.map = ins.map, !.err = "Io"]
                 ELSE InsertFlattened(
                          [acc EXCEPT !.map = ins.map,
                                      !.obkv = Append(@, <<ins.id, flattened[i][2]>>)],
                          flattened, i + 1)
         IN Inserted(fields_ids_map_insert(acc.map, flattened[i][1]))

\* The flattened fields under the key of the sort at 826-828: the id of
\* their name in the new map, FieldId::MAX for the names it does not hold.
KeyedByNewId(map, flattened) ==
    [i \in 1..Len(flattened) |->
        <<IF HasName(map, flattened[i][1]) THEN IdOf(map, flattened[i][1]) ELSE FieldIdMax,
          flattened[i]>>]

\* flattened.sort_unstable_by_key(new_fields_ids_map.id(key).unwrap_or(MAX)):
\* `ties` is what the sort does with the names unknown to the map, which
\* share the key FieldId::MAX.
KnownFirst(map, flattened, ties) ==
    LET sorted == sort_unstable_by_key(KeyedByNewId(map, flattened), ties)
    IN [i \in 1..Len(sorted) |-> sorted[i][2]]

RECURSIVE ReindexDocuments(_, _, _, _)
\* The loop over index.all_documents: the reordered document in the original
\* file, its flattened version in the flattened file, both as additions.
\* acc is [map, original, flattened, err, ties], ties the outcome of the sorts.
ReindexDocuments(acc, index, old_fields_ids_map, docids) ==
    IF docids = <<>> \/ acc.err # "" THEN acc
    ELSE LET docid == Head(docids)
             Flattened(buffer, flat) ==
                 IF flat.err # "" THEN [acc EXCEPT !.err = flat.err]
                 ELSE ReindexDocuments(
                          [acc EXCEPT
                              !.map = flat.map,
                              !.original = Append(@, <<docid,
                                              into_del_add_obkv(buffer, FALSE, TRUE)>>),
                              !.flattened = Append(@, <<docid,
                                               into_del_add_obkv(flat.obkv, FALSE, TRUE)>>)],
                          index, old_fields_ids_map, Tail(docids))
             Reordered(buffer) ==
                 Flattened(buffer,
                           InsertFlattened([map |-> acc.map, obkv |-> <<>>, err |-> ""],
                                           KnownFirst(acc.map,
                                                      FlattenDocument(acc.map, buffer),
                                                      acc.ties),
                                           1))
         IN Reordered(ReorderFields(old_fields_ids_map, acc.map, index.documents[docid], 0))

\* ClearDocuments::execute: the documents, their ids and the field
\* distribution are cleared, the settings stay.
ClearDocuments(index) ==
    [index EXCEPT !.external_documents_ids = [e \in {} |-> 0],
                  !.documents = [d \in {} |-> <<>>],
                  !.documents_ids = {},
                  !.soft_deleted_documents_ids = {},
                  !.field_distribution = [n \in {} |-> 0]]

\* The same, with the replaced ids of the session in the output.
prepare_for_documents_reindexing_keeps_replaced(t, index, old_fields_ids_map, new_fields_ids_map) ==
    LET Written(acc) ==
            IF acc.err # "" THEN [err |-> acc.err, output |-> <<>>, index |-> index]
            ELSE [err |-> "",
                  output |->
                     [primary_key |-> index.primary_key,
                      fields_ids_map |-> acc.map,
                      field_distribution |-> index.field_distribution,
                      new_external_documents_ids |-> <<>>,
                      new_documents_ids |-> index.documents_ids,
                      replaced_documents_ids |-> t.replaced_documents_ids,
                      documents_count |-> Cardinality(index.documents_ids),
                      original_documents |-> acc.original,
                      flattened_documents |-> acc.flattened],
                  index |-> ClearDocuments(index)]
    IN IF index.primary_key = ""
       THEN [err |-> "DatabaseMissingEntry", output |-> <<>>, index |-> index]
       ELSE Written(ReindexDocuments([map |-> new_fields_ids_map, original |-> <<>>,
                                      flattened |-> <<>>, err |-> "", ties |-> t.ties],
                                     index, old_fields_ids_map,
                                     SortedSeq(index.documents_ids)))

\* Transform::prepare_for_documents_reindexing: the error ("" on success),
\* the TransformOutput and the index afterwards.
prepare_for_documents_reindexing(t, index, old_fields_ids_map, new_fields_ids_map) ==
    LET Written(acc) ==
            IF acc.err # "" THEN [err |-> acc.err, output |-> <<>>, index |-> index]
            ELSE [err |-> "",
                  output |->
                     [primary_key |-> index.primary_key,
                      fields_ids_map |-> acc.map,
                      field_distribution |-> index.field_distribution,
                      new_external_documents_ids |-> <<>>,
                      new_documents_ids |-> index.documents_ids,
                      replaced_documents_ids |-> {},
                      documents_count |-> Cardinality(index.documents_ids),
                      original_documents |-> acc.original,
                      flattened_documents |-> acc.flattened],
                  index |-> ClearDocuments(index)]
    IN IF index.primary_key = ""
       THEN [err |-> "DatabaseMissingEntry", output |-> <<>>, index |-> index]
       ELSE Written(ReindexDocuments([map |-> new_fields_ids_map, original |-> <<>>,
                                      flattened |-> <<>>, err |-> "", ties |-> t.ties],
                                     index, old_fields_ids_map,
                                     SortedSeq(index.documents_ids)))

RECURSIVE Orders(_)
\* The lists that hold each member of a finite set once.
Orders(S) ==
    IF S = {} THEN {<<>>}
    ELSE UNION {{<<x>> \o o : o \in Orders(S \ {x})} : x \in S}

RECURSIVE UnknownAmong(_, _, _, _)
\* The pairs that share the key FieldId::MAX at 826-828 over the documents
\* docids: each document is reordered, flattened and keyed with the map as
\* the documents before it have grown it (831), in one of maps, the maps
\* that the orders of the sorts before may have left.
UnknownAmong(maps, index, old_fields_ids_map, docids) ==
    IF docids = <<>> \/ maps = {} THEN {}
    ELSE LET Flat(m) ==
                 FlattenDocument(m, ReorderFields(old_fields_ids_map, m,
                                                  index.documents[Head(docids)], 0))
             Unknown(keyed) ==
                 {keyed[i] : i \in {j \in 1..Len(keyed) : keyed[j][1] = FieldIdMax}}
             UnknownOf(m) == Unknown(KeyedByNewId(m, Flat(m)))
             Grown(m) ==
                 {InsertFlattened([map |-> m, obkv |-> <<>>, err |-> ""],
                                  KnownFirst(m, Flat(m), o), 1) : o \in Orders(UnknownOf(m))}
             Left(grown) == {g.map : g \in {h \in grown : h.err = ""}}
         IN UNION {UnknownOf(m) : m \in maps}
            \cup UnknownAmong(Left(UNION {Grown(m) : m \in maps}), index,
                              old_fields_ids_map, Tail(docids))

\* The flattened fields of the live documents whose name the new map, as
\* grown by the documents before theirs, does not hold.
UnknownToNewMap(index, old_fields_ids_map, new_fields_ids_map) ==
    UnknownAmong({new_fields_ids_map}, index, old_fields_ids_map,
                 SortedSeq(index.documents_ids))

\* ------------------------------------------------------------- the session

VARIABLES
    index,                               \* the persisted index behind wtxn
    index_documents_method,              \* ReplaceDocuments or UpdateDocuments
    fields_ids_map,
    available_documents_ids,
    original_sorter,
    flattened_sorter,
    replaced_documents_ids,
    new_documents_ids,
    new_external_documents_ids_builder,
    documents_count,
    status,                              \* open, failed (a call returned Err), output,
                                         \* reindexed
    output,                              \* the TransformOutput, <<>> before
    last,                                \* the last call: its input and its result
    history,                             \* per external id, what the calls did with it
    events,                              \* the records and ids handled so far
    obkvs,                               \* the values inserted under one key of a sorter
    chunks,                              \* the same key after the merges made so far
    merged,                              \* the last call of the merge function
    flattener_obkv,                      \* the record handed to the flattener
    flattener_output                     \* what the flattener returned for it

vars == <<index, index_documents_method, fields_ids_map, available_documents_ids,
          original_sorter, flattened_sorter, replaced_documents_ids, new_documents_ids,
          new_external_documents_ids_builder, documents_count, status, output, last,
          history, events, obkvs, chunks, merged, flattener_obkv, flattener_output>>

\* The Transform as one value.
Self ==
    [fields_ids_map |-> fields_ids_map,
     available_documents_ids |-> available_documents_ids,
     original_sorter |-> original_sorter,
     flattened_sorter |-> flattened_sorter,
     replaced_documents_ids |-> replaced_documents_ids,
     new_documents_ids |-> new_documents_ids,
     new_external_documents_ids_builder |-> new_external_documents_ids_builder,
     documents_count |-> documents_count]

\* The Transform during a call whose unstable sorts leave the pairs of
\* equal key as `ties` says.
Sorting(t, ties) ==
    [f \in DOMAIN t \cup {"ties"} |-> IF f = "ties" THEN ties ELSE t[f]]

\* The Transform during output_from_sorter, its sorters yielding the
\* streams original and flattened.
Draining(t, original, flattened) ==
    [f \in DOMAIN t \cup {"original_stream", "flattened_stream"} |->
        IF f = "original_stream" THEN original
        ELSE IF f = "flattened_stream" THEN flattened
        ELSE t[f]]

\* The fields of the Transform after a call.
Becomes(t) ==
    /\ fields_ids_map' = t.fields_ids_map
    /\ available_documents_ids' = t.available_documents_ids
    /\ original_sorter' = t.original_sorter
    /\ flattened_sorter' = t.flattened_sorter
    /\ replaced_documents_ids' = t.replaced_documents_ids
    /\ new_documents_ids' = t.new_documents_ids
    /\ new_external_documents_ids_builder' = t.new_external_documents_ids_builder
    /\ documents_count' = t.documents_count

\* A call as `last` keeps it.
Call(op, docs, ids, abort_at, err, ret) ==
    [op |-> op, docs |-> docs, ids |-> ids, abort_at |-> abort_at, err |-> err, ret |-> ret]

\* Transform::new over one of the indexes, in one of the two methods.
Init ==
    /\ index \in Indexes
    /\ index_documents_method \in {"ReplaceDocuments", "UpdateDocuments"}
    /\ fields_ids_map = index.fields_ids_map
    /\ available_documents_ids =
           AvailableDocumentsIds(index.documents_ids, index.soft_deleted_documents_ids)
    /\ original_sorter = EmptySorter
    /\ flattened_sorter = EmptySorter
    /\ replaced_documents_ids = {}
    /\ new_documents_ids = {}
    /\ new_external_documents_ids_builder = [e \in {} |-> 0]
    /\ documents_count = 0
    /\ status = "open"
    /\ output = <<>>
    /\ last = Call("new", <<>>, <<>>, 0, "", 0)
    /\ history = [e \in ExtIds |-> <<>>]
    /\ events = 0
    /\ obkvs = <<>>
    /\ chunks = <<>>
    /\ merged = <<>>
    /\ flattener_obkv = <<>>
    /\ flattener_output = <<>>

\* The batches and the removal lists the calls draw from.
Batches == SeqsUpTo(RawDocs, MaxBatch)
RemoveLists == SeqsUpTo(ExtIds, MaxBatch)

\* A document as `last` and `history` keep it: its external id and its
\* fields, the primary key first.
Logged(raw) ==
    [external_id |-> raw.external_id,
     fields |-> (IF raw.generated THEN <<<<"id", Scalar(raw.external_id)>>>> ELSE <<>>)
                \o raw.fields]

\* The internal id a call used for an external id: the builder's (before a
\* removal, after an addition), else the persisted one, else None.
UsedDocid(builder, e) ==
    IF e \in DOMAIN builder THEN builder[e]
    ELSE IF e \in DOMAIN index.external_documents_ids THEN index.external_documents_ids[e]
    ELSE None

\* The history after the first n documents of a batch were read.
AfterRead(docs, n, builder) ==
    [e \in ExtIds |->
        history[e] \o
        LET mine == SelectSeq(SubSeq(docs, 1, n), LAMBDA d : d.external_id = e)
        IN [i \in 1..Len(mine) |->
               [op |-> "add", fields |-> mine[i].fields, docid |-> UsedDocid(builder, e)]]]

\* The history after the first n ids of a removal list were removed.
AfterRemove(ids, n, builder) ==
    [e \in ExtIds |->
        history[e] \o
        IF \E i \in 1..n : ids[i] = e
        THEN <<[op |-> "remove", fields |-> <<>>, docid |-> UsedDocid(builder, e)]>>
        ELSE <<>>]

\* A call of read_documents on a batch; should_abort turns true at its
\* abort_at-th poll.
ReadDocuments ==
    /\ status = "open"
    /\ \E raws \in Batches :
         /\ events + (IF raws = <<>> THEN 1 ELSE Len(raws)) <= MaxEvents
         /\ \E abort_at \in 0..Len(raws) :
              LET docs == [i \in 1..Len(raws) |-> Logged(raws[i])]
                  Returns(r) ==
                     /\ Becomes(r.t)
                     /\ index' = IF r.put
                                 THEN [index EXCEPT !.fields_ids_map = r.t.fields_ids_map,
                                                    !.primary_key = "id"]
                                 ELSE index
                     /\ status' = IF r.err = "" THEN "open" ELSE "failed"
                     /\ last' = Call("read_documents", docs, <<>>, abort_at, r.err, r.ret)
                     /\ history' = AfterRead(docs, r.processed,
                                             r.t.new_external_documents_ids_builder)
                     /\ events' = events + (IF raws = <<>> THEN 1 ELSE Len(raws))
              IN \E ties \in SortOutcomes(index) :
                     Returns(read_documents(Sorting(Self, ties), index,
                                            index_documents_method, Reader(raws), abort_at))
    /\ UNCHANGED <<index_documents_method, output, obkvs, chunks, merged, flattener_obkv, flattener_output>>

\* A call of remove_documents on a list of external ids.
RemoveDocuments ==
    /\ status = "open"
    /\ \E to_remove \in RemoveLists :
         /\ events + (IF to_remove = <<>> THEN 1 ELSE Len(to_remove)) <= MaxEvents
         /\ \E abort_at \in 0..Len(sort_dedup(to_remove)) :
              LET Returns(r) ==
                     /\ Becomes(r.t)
                     /\ status' = IF r.err = "" THEN "open" ELSE "failed"
                     /\ last' = Call("remove_documents", <<>>, to_remove, abort_at, r.err, r.ret)
                     /\ history' = AfterRemove(sort_dedup(to_remove), r.processed,
                                               new_external_documents_ids_builder)
                     /\ events' = events + (IF to_remove = <<>> THEN 1 ELSE Len(to_remove))
              IN \E ties \in SortOutcomes(index) :
                     Returns(remove_documents(Sorting(Self, ties), index, to_remove,
                                              abort_at))
    /\ UNCHANGED <<index, index_documents_method, output, obkvs, chunks, merged,
                   flattener_obkv, flattener_output>>

\* The call of output_from_sorter, which consumes the session.
OutputFromSorter ==
    /\ status = "open"
    /\ LET Returns(r) ==
              /\ status' = IF r.err = "" THEN "output" ELSE "failed"
              /\ output' = r.output
              /\ last' = Call("output_from_sorter", <<>>, <<>>, 0, r.err, 0)
       IN \E original \in into_stream_merger_iter(original_sorter, index_documents_method) :
          \E flattened \in into_stream_merger_iter(flattened_sorter,
                                                    index_documents_method) :
              Returns(output_from_sorter(Draining(Self, original, flattened), index,
                                         index_documents_method))
    /\ UNCHANGED <<index, index_documents_method, fields_ids_map, available_documents_ids,
                   original_sorter, flattened_sorter, replaced_documents_ids,
                   new_documents_ids, new_external_documents_ids_builder, documents_count,
                   history, events, obkvs, chunks, merged, flattener_obkv, flattener_output>>

\* The new fields ids maps a settings change hands over: the names of the
\* index in their order and in the reverse one.
Reversed(map) == [i \in 1..Len(map) |-> map[Len(map) + 1 - i]]
NewFieldsIdsMaps(map) == {map, Reversed(map)}

\* The call of prepare_for_documents_reindexing, which consumes the session
\* and clears the documents of the index.
PrepareForDocumentsReindexing ==
    /\ status = "open"
    /\ \E new_fields_ids_map \in NewFieldsIdsMaps(index.fields_ids_map) :
         LET Returns(r) ==
                /\ status' = IF r.err = "" THEN "reindexed" ELSE "failed"
                /\ output' = r.output
                /\ index' = r.index
                /\ last' = Call("prepare_for_documents_reindexing", <<>>, <<>>, 0, r.err, 0)
         IN \E ties \in Orders(UnknownToNewMap(index, index.fields_ids_map,
                                                  new_fields_ids_map)) :
                Returns(prepare_for_documents_reindexing(Sorting(Self, ties), index,
                                                         index.fields_ids_map,
                                                         new_fields_ids_map))
    /\ UNCHANGED <<index_documents_method, fields_ids_map, available_documents_ids,
                   original_sorter, flattened_sorter, replaced_documents_ids,
                   new_documents_ids, new_external_documents_ids_builder, documents_count,
                   history, events, obkvs, chunks, merged, flattener_obkv, flattener_output>>

Next == ReadDocuments \/ RemoveDocuments \/ OutputFromSorter \/ PrepareForDocumentsReindexing

Spec == Init /\ [][Next]_vars

\* ------------------------------------------------- the merge function alone

\* Values one key of a sorter holds before a merge.
MaxInputs == 3

\* The records of test::merge_obkvs: field 0 holding [0], field 1 holding [1].
additive_doc_0 ==
    [op |-> "Addition", obkv |-> into_del_add_obkv(<<<<0, Scalar("0")>>>>, FALSE, TRUE)]
deletive_doc_0 ==
    [op |-> "Deletion", obkv |-> into_del_add_obkv(<<<<0, Scalar("0")>>>>, TRUE, FALSE)]
del_add_doc_0 ==
    [op |-> "Addition", obkv |-> into_del_add_obkv(<<<<0, Scalar("0")>>>>, TRUE, TRUE)]
additive_doc_1 ==
    [op |-> "Addition", obkv |-> into_del_add_obkv(<<<<1, Scalar("1")>>>>, FALSE, TRUE)]
additive_doc_0_1 ==
    [op |-> "Addition",
     obkv |-> into_del_add_obkv(<<<<0, Scalar("0")>>, <<1, Scalar("1")>>>>, FALSE, TRUE)]

\* The other records the calls insert for a document whose persisted version
\* holds [0] and [1]: a new version of field 0, the persisted version as
\* read_documents inserts it in update mode and in replace mode, and the
\* two deletions of remove_documents.
additive_doc_0_new ==
    [op |-> "Addition", obkv |-> into_del_add_obkv(<<<<0, Scalar("2")>>>>, FALSE, TRUE)]
base_doc_0_1(keep_original_version) ==
    [op |-> "Addition",
     obkv |-> into_del_add_obkv(<<<<0, Scalar("0")>>, <<1, Scalar("1")>>>>, TRUE,
                                keep_original_version)]
deletive_doc_0_1 ==
    [op |-> "Deletion",
     obkv |-> into_del_add_obkv(<<<<0, Scalar("0")>>, <<1, Scalar("1")>>>>, TRUE, FALSE)]
deletive_doc_empty == [op |-> "Deletion", obkv |-> <<>>]

Records ==
    {additive_doc_0, deletive_doc_0, del_add_doc_0, additive_doc_1, additive_doc_0_1,
     additive_doc_0_new, base_doc_0_1(TRUE), base_doc_0_1(FALSE), deletive_doc_0_1,
     deletive_doc_empty}

\* A sorter of a new Transform with the values of one key inserted.
MergeInit ==
    /\ index = EmptyIndex
    /\ index_documents_method \in {"ReplaceDocuments", "UpdateDocuments"}
    /\ fields_ids_map = index.fields_ids_map
    /\ available_documents_ids =
           AvailableDocumentsIds(index.documents_ids, index.soft_deleted_documents_ids)
    /\ original_sorter = EmptySorter
    /\ flattened_sorter = EmptySorter
    /\ replaced_documents_ids = {}
    /\ new_documents_ids = {}
    /\ new_external_documents_ids_builder = [e \in {} |-> 0]
    /\ documents_count = 0
    /\ status = "open"
    /\ output = <<>>
    /\ last = Call("new", <<>>, <<>>, 0, "", 0)
    /\ history = [e \in ExtIds |-> <<>>]
    /\ events = 0
    /\ obkvs \in SeqsUpTo(Records, MaxInputs) \ {<<>>}
    /\ chunks = obkvs
    /\ merged = <<>>
    /\ flattener_obkv = <<>>
    /\ flattener_output = <<>>

\* The sorter calls the merge function on a run of the values of the key and
\* keeps the result in their place.
Merge ==
    /\ \E i \in 1..Len(chunks) : \E j \in i..Len(chunks) :
         LET Returns(run, r) ==
                /\ chunks' = SubSeq(chunks, 1, i - 1) \o <<r>>
                              \o SubSeq(chunks, j + 1, Len(chunks))
                /\ merged' = [obkvs |-> run, output |-> r]
         IN Returns(SubSeq(chunks, i, j),
                    merge_function(index_documents_method, SubSeq(chunks, i, j)))
    /\ UNCHANGED <<index, index_documents_method, fields_ids_map, available_documents_ids,
                   original_sorter, flattened_sorter, replaced_documents_ids,
                   new_documents_ids, new_external_documents_ids_builder, documents_count,
                   status, output, last, history, events, obkvs, flattener_obkv,
                   flattener_output>>

MergeNext == Merge

MergeSpec == MergeInit /\ [][MergeNext]_vars

\* ------------------------------------------------------ the flattener alone

\* The fields ids maps the flattener starts from: the primary key alone, the
\* dotted key known before its parent, and a map one name short of full.
FlattenerMaps == { <<"id">>, <<"id", "doggo.name", "doggo">>, <<"id", "name", "age">> }

\* The bodies of the documents: the field doggo.name absent, a scalar or an
\* array, the field doggo absent, a scalar, an object holding a scalar or an
\* object holding an array, in both orders of the payload.
FlattenerBodies ==
    LET dotted == { <<>> } \cup { <<<<"doggo.name", v>>>> :
                                     v \in {Scalar("jean"), Array(<<"jean", "bob">>)} }
        parent == { <<>> } \cup { <<<<"doggo", v>>>> :
                                     v \in {Scalar("x"), Object("name", "paul"),
                                            ObjectOfArray("name", <<"paul", "bill">>)} }
    IN { d \o p : d \in dotted, p \in parent } \cup { p \o d : d \in dotted, p \in parent }

\* The documents of the payload, with their own primary key or a generated
\* one.
FlattenerDocs ==
    { [external_id |-> "a", generated |-> FALSE, fields |-> <<<<"id", Scalar("a")>>>> \o b] :
        b \in FlattenerBodies }
    \cup { [external_id |-> "a", generated |-> TRUE, fields |-> b] :
              b \in FlattenerBodies \ { <<>> } }

\* A new Transform about to flatten the canonical record that read_documents
\* assembled from one document of a payload.
FlattenInit ==
    /\ index = EmptyIndex
    /\ index_documents_method \in {"ReplaceDocuments", "UpdateDocuments"}
    /\ available_documents_ids =
           AvailableDocumentsIds(index.documents_ids, index.soft_deleted_documents_ids)
    /\ original_sorter = EmptySorter
    /\ flattened_sorter = EmptySorter
    /\ replaced_documents_ids = {}
    /\ new_documents_ids = {}
    /\ new_external_documents_ids_builder = [e \in {} |-> 0]
    /\ documents_count = 0
    /\ status = "open"
    /\ output = <<>>
    /\ last = Call("new", <<>>, <<>>, 0, "", 0)
    /\ history = [e \in ExtIds |-> <<>>]
    /\ events = 0
    /\ obkvs = <<>>
    /\ chunks = <<>>
    /\ merged = <<>>
    /\ \E map \in FlattenerMaps : \E raw \in FlattenerDocs :
         LET reader == Reader(<<raw>>)
             Assembled(m) ==
                 /\ m.err = ""
                 /\ fields_ids_map = m.map
                 /\ flattener_obkv = obkv_of_document(m.mapping, IdOf(m.map, "id"),
                                                      reader.documents[1], <<>>)
         IN Assembled(create_fields_mapping(map, reader.fields_index))
    /\ flattener_output = <<>>

\* One call of flatten_from_fields_ids_map on the record: the sort leaves
\* the two pairs of a shared key in either order.
Flatten ==
    /\ flattener_output = <<>>
    /\ \E ties \in Ties(fields_ids_map, flattener_obkv) :
         LET Returns(r) ==
                /\ flattener_output' = r
                /\ fields_ids_map' = r.map
         IN Returns(flatten_sorted(fields_ids_map, flattener_obkv, ties))
    /\ UNCHANGED <<index, index_documents_method, available_documents_ids,
                   original_sorter, flattened_sorter, replaced_documents_ids,
                   new_documents_ids, new_external_documents_ids_builder, documents_count,
                   status, output, last, history, events, obkvs, chunks, merged,
                   flattener_obkv>>

FlattenNext == Flatten

FlattenSpec == FlattenInit /\ [][FlattenNext]_vars

\* --------------------------------------------------------- the properties

\* The internal ids the builder maps to, the keys of an output file, the
\* internal ids an external id had in the session.
BuilderIds == {new_external_documents_ids_builder[e] :
                   e \in DOMAIN new_external_documents_ids_builder}
KeysOf(file) == {file[i][1] : i \in 1..Len(file)}
IdsOf(e) == {history[e][i].docid : i \in 1..Len(history[e])} \ {None}
Touched == replaced_documents_ids \cup new_documents_ids

\* C1: after successful read_documents and remove_documents calls, every
\* internal id the external ids builder maps to is in the new documents ids
\* or in the replaced documents ids.
C1_BuilderIdsAreTouched ==
    status # "failed" => BuilderIds \subseteq Touched

\* A removal went through and the builder still maps an id.
C1_Witness ==
    /\ status = "open"
    /\ last.op = "remove_documents" /\ last.err = "" /\ last.ret = 1
    /\ BuilderIds # {}

\* C2, as stated: at output the keys of the two sort buffers are exactly
\* the replaced documents ids and the new documents ids.
C2_KeysAreExactlyTouched ==
    status = "output" =>
        KeysOf(output.original_documents) \cup KeysOf(output.flattened_documents)
            = output.replaced_documents_ids \cup output.new_documents_ids

\* C2, amended: at output every replaced or new id is a key of both sort
\* buffers, and a key outside the two sets is a freshly allocated id whose
\* document was removed in the session, merged into a Deletion.
C2_TouchedHaveKeys ==
    status = "output" =>
        LET original == KeysOf(output.original_documents)
            flattened == KeysOf(output.flattened_documents)
            touched == output.replaced_documents_ids \cup output.new_documents_ids
        IN /\ touched \subseteq original
           /\ touched \subseteq flattened
           /\ \A k \in (original \cup flattened) \ touched :
                /\ k \notin index.documents_ids \cup index.soft_deleted_documents_ids
                /\ k \notin BuilderIds
                /\ \E e \in ExtIds : /\ k \in IdsOf(e)
                                     /\ \E i \in 1..Len(history[e]) :
                                          /\ history[e][i].op = "remove"
                                          /\ history[e][i].docid = k
                /\ \A m \in MergedEntries(original_sorter, k, index_documents_method) :
                       m.op = "Deletion"
                /\ \A m \in MergedEntries(flattened_sorter, k, index_documents_method) :
                       m.op = "Deletion"

\* An output whose buffers hold a key outside the two sets, beside touched
\* ids.
C2_Witness ==
    /\ status = "output"
    /\ KeysOf(output.original_documents) \ Touched # {}
    /\ Touched # {}

\* C3, as stated: at output no internal id is both new and replaced.
C3_NewAndReplacedDisjoint ==
    status = "output" =>
        output.new_documents_ids \cap output.replaced_documents_ids = {}

\* C3, amended: at output the replaced ids are persisted ids, a new id is a
\* freshly allocated id or a persisted id that is also replaced, and the
\* two sets overlap exactly on the persisted ids the builder maps to.
C3_SetsByProvenance ==
    status = "output" =>
        /\ output.replaced_documents_ids \subseteq index.documents_ids
        /\ \A d \in output.new_documents_ids :
             \/ d \in output.replaced_documents_ids
             \/ d \notin index.documents_ids \cup index.soft_deleted_documents_ids
        /\ output.new_documents_ids \cap output.replaced_documents_ids
             = {output.new_external_documents_ids[i][2] :
                  i \in {j \in 1..Len(output.new_external_documents_ids) :
                           output.new_external_documents_ids[j][1]
                               \in DOMAIN index.external_documents_ids}}

\* An output with an id in both sets and a new id that is not replaced.
C3_Witness ==
    /\ status = "output"
    /\ output.new_documents_ids \cap output.replaced_documents_ids # {}
    /\ output.new_documents_ids \ output.replaced_documents_ids # {}

\* The persisted external ids map, the ids of a call, the operations of an
\* external id in the session, the canonical record of a logged document
\* (its fields under their ids, sorted by id).
Persisted == index.external_documents_ids
IdsOfCall(call) == {call.ids[i] : i \in 1..Len(call.ids)}
DocsOfCall(call) == {call.docs[i].external_id : i \in 1..Len(call.docs)}
Ops(e) == [i \in 1..Len(history[e]) |-> history[e][i].op]
CanonicalObkv(map, fields) ==
    SortByKey([j \in 1..Len(fields) |-> <<IdOf(map, fields[j][1]), fields[j][2]>>])

\* A logged document is byte-identical to the persisted record of its
\* external id.
IsBase(doc) ==
    /\ doc.external_id \in DOMAIN Persisted
    /\ \A j \in 1..Len(doc.fields) : HasName(index.fields_ids_map, doc.fields[j][1])
    /\ CanonicalObkv(index.fields_ids_map, doc.fields)
         = index.documents[Persisted[doc.external_id]]

\* The step is a successful read_documents whose records all equal their
\* persisted base.
ReadsBaseOnly ==
    /\ last'.op = "read_documents" /\ last'.err = "" /\ last'.docs # <<>>
    /\ \A i \in 1..Len(last'.docs) : IsBase(last'.docs[i])

\* C4, as stated: reading a record identical to its persisted base leaves
\* the replaced ids, the new ids and the builder as they were, whatever
\* came before.
C4_ExactReAddChangesNothing ==
    [][ReadsBaseOnly =>
           UNCHANGED <<replaced_documents_ids, new_documents_ids,
                       new_external_documents_ids_builder>>]_vars

\* C4, amended: reading a record identical to its persisted base leaves the
\* three as they were, unless its external id is out of the builder while
\* its persisted id is already replaced (it was removed earlier in the
\* session): then the builder maps the external id to the persisted id
\* again and the id enters the new ids; the replaced ids never change.
C4_ExactReAdd ==
    [][ReadsBaseOnly =>
           LET again == {e \in DocsOfCall(last') :
                           /\ e \notin DOMAIN new_external_documents_ids_builder
                           /\ Persisted[e] \in replaced_documents_ids}
           IN /\ replaced_documents_ids' = replaced_documents_ids
              /\ new_documents_ids' = new_documents_ids \cup {Persisted[e] : e \in again}
              /\ new_external_documents_ids_builder' =
                     [e \in DOMAIN new_external_documents_ids_builder \cup again |->
                          IF e \in again THEN Persisted[e]
                          ELSE new_external_documents_ids_builder[e]]]_vars

\* A record identical to its base was read after another document was
\* removed, and nothing but that removal shows in the sets.
C4_Witness ==
    /\ status = "open"
    /\ last.op = "read_documents" /\ last.err = "" /\ last.docs # <<>>
    /\ \A i \in 1..Len(last.docs) : IsBase(last.docs[i])
    /\ replaced_documents_ids # {}
    /\ new_documents_ids = {}
    /\ DOMAIN new_external_documents_ids_builder = {}

\* The position of the last removal of a history (0 when there is none) and
\* the records read after it.
LastRemoval(h) ==
    IF \E i \in 1..Len(h) : h[i].op = "remove"
    THEN CHOOSE i \in 1..Len(h) :
             h[i].op = "remove" /\ \A j \in (i + 1)..Len(h) : h[j].op # "remove"
    ELSE 0
ReAdded(e) == LastRemoval(history[e]) > 0 /\ LastRemoval(history[e]) < Len(history[e])
AddsAfterRemoval(e) == SubSeq(history[e], LastRemoval(history[e]) + 1, Len(history[e]))

\* The value of the last of the records that carries the field.
LastWritten(records, name) ==
    LET carries(r) == \E j \in 1..Len(r.fields) : r.fields[j][1] = name
        last_one == CHOOSE i \in 1..Len(records) :
                        carries(records[i])
                        /\ \A k \in (i + 1)..Len(records) : ~carries(records[k])
        fields == records[last_one].fields
    IN fields[CHOOSE j \in 1..Len(fields) : fields[j][1] = name][2]

\* The record a re-added external id is expected to end with: the last
\* record read after the removal, in update mode on top of the records read
\* after the removal before it.
ExpectedAddition(e, map) ==
    LET adds == AddsAfterRemoval(e)
    IN IF index_documents_method = "ReplaceDocuments"
       THEN CanonicalObkv(map, adds[Len(adds)].fields)
       ELSE LET names == UNION {{r.fields[j][1] : j \in 1..Len(r.fields)} :
                                   r \in {adds[i] : i \in 1..Len(adds)}}
                ids == SortedSeq({IdOf(map, n) : n \in names})
            IN [i \in 1..Len(ids) |-> <<ids[i], LastWritten(adds, NameOf(map, ids[i]))>>]
ExpectedFlattened(e, map) ==
    LET Flat(expected, flat) == IF flat.flattened THEN flat.obkv ELSE expected
        Expected(expected) == Flat(expected,
                                   flatten_from_fields_ids_map(map, expected, <<>>))
    IN Expected(ExpectedAddition(e, map))

\* The del/add record an output file holds under a key.
EntryOf(file, k) == file[CHOOSE i \in 1..Len(file) : file[i][1] = k][2]

\* C5, as stated: at output, for an external id removed and read again
\* with no later removal, the merged entry under its internal id has as
\* addition side exactly the re-added record (both files, both methods),
\* exactly one of its ids is new, and none of its ids is replaced when it
\* had no persisted mapping. In update mode a spill of the sorter between
\* the first record and the removal brings back the fields of the persisted
\* version that the re-added record lacks.
C5_ReAddWins ==
    status = "output" =>
        \A e \in ExtIds :
            ReAdded(e) =>
                /\ e \in DOMAIN new_external_documents_ids_builder
                /\ LET d == new_external_documents_ids_builder[e]
                   IN /\ d \in KeysOf(output.original_documents)
                      /\ d \in KeysOf(output.flattened_documents)
                      /\ AdditionSide(EntryOf(output.original_documents, d))
                           = ExpectedAddition(e, output.fields_ids_map)
                      /\ AdditionSide(EntryOf(output.flattened_documents, d))
                           = ExpectedFlattened(e, output.fields_ids_map)
                /\ Cardinality(IdsOf(e) \cap output.new_documents_ids) = 1
                /\ e \notin DOMAIN Persisted =>
                       IdsOf(e) \cap output.replaced_documents_ids = {}

\* The number of records read for an external id, and for all of them.
Adds(e) == Cardinality({i \in 1..Len(history[e]) : history[e][i].op = "add"})
RECURSIVE TotalAdds(_)
TotalAdds(S) ==
    IF S = {} THEN 0
    ELSE LET e == CHOOSE x \in S : TRUE IN Adds(e) + TotalAdds(S \ {e})

\* C6, as stated: an external id read, removed and read again is counted
\* once in the documents count of the output.
C6_ReAddCountedOnce ==
    status = "output" =>
        \A e \in ExtIds :
            (Ops(e) = <<"add", "remove", "add">> /\ \A f \in ExtIds \ {e} : Adds(f) = 0)
                => output.documents_count = 1

\* C6, amended: the documents count of the output counts every record read,
\* so an external id read, removed and read again is counted twice.
C6_ReAddCountedPerRecord ==
    status = "output" => output.documents_count = TotalAdds(ExtIds)

\* An output after an external id was read, removed and read again, the
\* only records of the session.
C6_Witness ==
    /\ status = "output"
    /\ output.documents_count = 2
    /\ \E e \in ExtIds :
         /\ Ops(e) = <<"add", "remove", "add">>
         /\ \A f \in ExtIds \ {e} : Adds(f) = 0

\* C7: a successful read_documents adds the number of records of its batch
\* to the documents count, a failed one and remove_documents leave it as it
\* was.
C7_DocumentsCount ==
    [][/\ (last'.op = "read_documents" /\ last'.err = "")
            => documents_count' = documents_count + Len(last'.docs)
       /\ (last'.op = "read_documents" /\ last'.err # "")
            => documents_count' = documents_count
       /\ last'.op = "remove_documents" => documents_count' = documents_count]_vars

\* Three records of one external id were counted, the last two in one
\* batch, and every one of them was skipped as equal to its base.
C7_Witness ==
    /\ status = "open"
    /\ last.op = "read_documents" /\ last.err = "" /\ Len(last.docs) = 2
    /\ last.docs[1].external_id = last.docs[2].external_id
    /\ documents_count = 3
    /\ new_documents_ids = {}
    /\ original_sorter = EmptySorter

\* C8: at output, for an external id whose last operation is a removal, the
\* external id is not in the external ids map of the output, none of its
\* ids is new, and the merged entry under each of its ids is a Deletion
\* without addition side, in both files.
C8_LastRemovalWins ==
    status = "output" =>
        \A e \in ExtIds :
            (history[e] # <<>> /\ history[e][Len(history[e])].op = "remove") =>
                /\ \A i \in 1..Len(output.new_external_documents_ids) :
                       output.new_external_documents_ids[i][1] # e
                /\ IdsOf(e) \cap output.new_documents_ids = {}
                /\ \A d \in IdsOf(e) :
                     /\ d \in KeysOf(output.original_documents)
                     /\ d \in KeysOf(output.flattened_documents)
                     /\ \A m \in MergedEntries(original_sorter, d, index_documents_method) :
                            m.op = "Deletion"
                     /\ \A m \in MergedEntries(flattened_sorter, d, index_documents_method) :
                            m.op = "Deletion"
                     /\ AdditionSide(EntryOf(output.original_documents, d)) = <<>>
                     /\ AdditionSide(EntryOf(output.flattened_documents, d)) = <<>>

\* An output after a document was read and then removed.
C8_Witness ==
    /\ status = "output"
    /\ \E e \in ExtIds :
         /\ Len(history[e]) >= 2
         /\ history[e][1].op = "add"
         /\ history[e][Len(history[e])].op = "remove"
         /\ IdsOf(e) # {}

\* The external id is in the builder or in the persisted map.
Known(e) == e \in DOMAIN new_external_documents_ids_builder \/ e \in DOMAIN Persisted

\* C9: remove_documents counts the ids that are in the builder or in the
\* persisted map only, and a call on ids that are in neither leaves the
\* builder, the new ids, the replaced ids and both sorters as they were.
C9_UnknownIdIsNoOp ==
    [][(last'.op = "remove_documents" /\ last'.err = "") =>
           /\ last'.ret = Cardinality({e \in IdsOfCall(last') : Known(e)})
           /\ (\A e \in IdsOfCall(last') : ~Known(e)) =>
                  UNCHANGED <<new_external_documents_ids_builder, new_documents_ids,
                              replaced_documents_ids, original_sorter,
                              flattened_sorter>>]_vars

\* An unknown id was removed from a session that holds a document.
C9_Witness ==
    /\ status = "open"
    /\ last.op = "remove_documents" /\ last.err = "" /\ last.ids # <<>> /\ last.ret = 0
    /\ \A e \in IdsOfCall(last) : history[e][Len(history[e])].docid = None
    /\ original_sorter # EmptySorter
    /\ new_documents_ids # {}

\* The empty Deletion record.
EmptyDeletion == [op |-> "Deletion", obkv |-> <<>>]

\* C10: remove_documents on an external id of the builder without persisted
\* mapping appends one empty Deletion under its internal id in both
\* sorters, takes the external id out of the builder and the internal id
\* out of the new ids; a call on ids without persisted mapping leaves the
\* replaced ids as they were and touches nothing else.
C10_RemoveFromSession ==
    [][(last'.op = "remove_documents" /\ last'.err = "") =>
           LET session == {e \in IdsOfCall(last') :
                             /\ e \in DOMAIN new_external_documents_ids_builder
                             /\ e \notin DOMAIN Persisted}
               docids == {new_external_documents_ids_builder[e] : e \in session}
           IN /\ \A d \in docids :
                   /\ d \in DOMAIN original_sorter /\ d \in DOMAIN flattened_sorter
                   /\ original_sorter'[d] = Append(original_sorter[d], EmptyDeletion)
                   /\ flattened_sorter'[d] = Append(flattened_sorter[d], EmptyDeletion)
                   /\ d \notin new_documents_ids'
              /\ session \cap DOMAIN new_external_documents_ids_builder' = {}
              /\ (IdsOfCall(last') \cap DOMAIN Persisted = {}) =>
                   /\ replaced_documents_ids' = replaced_documents_ids
                   /\ new_documents_ids' = new_documents_ids \ docids
                   /\ new_external_documents_ids_builder' =
                          [e \in DOMAIN new_external_documents_ids_builder \ session |->
                               new_external_documents_ids_builder[e]]
                   /\ DOMAIN original_sorter' = DOMAIN original_sorter
                   /\ DOMAIN flattened_sorter' = DOMAIN flattened_sorter
                   /\ \A k \in DOMAIN original_sorter \ docids :
                        /\ original_sorter'[k] = original_sorter[k]
                        /\ flattened_sorter'[k] = flattened_sorter[k]]_vars

\* A document the session added under a fresh id was removed, beside a
\* persisted document the session replaced.
C10_Witness ==
    /\ status = "open"
    /\ last.op = "remove_documents" /\ last.err = "" /\ last.ret = 1
    /\ \E e \in IdsOfCall(last) :
         /\ e \notin DOMAIN Persisted
         /\ Ops(e) = <<"add", "remove">>
         /\ history[e][2].docid \in DOMAIN original_sorter
         /\ original_sorter[history[e][2].docid][2] = EmptyDeletion
         /\ flattened_sorter[history[e][2].docid][2] = EmptyDeletion
    /\ replaced_documents_ids # {}
    /\ new_documents_ids # {}

\* C11: the number a successful remove_documents returns is the number of
\* distinct external ids of its list that are in the builder or in the
\* persisted map when the call starts (no id of the list changes whether
\* another one is known); an id given twice, or known to both, counts once.
C11_RemoveReturnsKnownIds ==
    [][(last'.op = "remove_documents" /\ last'.err = "") =>
           /\ last'.ret = Cardinality({e \in ExtIds :
                              /\ \E i \in 1..Len(last'.ids) : last'.ids[i] = e
                              /\ \/ e \in DOMAIN new_external_documents_ids_builder
                                 \/ e \in DOMAIN index.external_documents_ids})
           /\ last'.ret <= Cardinality(IdsOfCall(last'))]_vars

\* An external id that is in the builder and in the persisted map was given
\* twice and counted once.
C11_Witness ==
    /\ status = "open"
    /\ last.op = "remove_documents" /\ last.err = "" /\ last.ret = 1
    /\ Len(last.ids) = 2 /\ last.ids[1] = last.ids[2]
    /\ last.ids[1] \in DOMAIN Persisted
    /\ Ops(last.ids[1]) = <<"add", "remove">>
    /\ Persisted[last.ids[1]] \in DOMAIN original_sorter
    /\ Len(original_sorter[Persisted[last.ids[1]]]) = 4

\* The builder, the new ids, the replaced ids and the two sorters after the
\* step are those of the session t.
LeavesAs(t) ==
    /\ new_external_documents_ids_builder' = t.new_external_documents_ids_builder
    /\ new_documents_ids' = t.new_documents_ids
    /\ replaced_documents_ids' = t.replaced_documents_ids
    /\ original_sorter' = t.original_sorter
    /\ flattened_sorter' = t.flattened_sorter

\* The reader of a batch cut after its first n documents (the dictionary of
\* the batch is the one of the whole batch).
FirstDocuments(raws, n) == [Reader(raws) EXCEPT !.documents = SubSeq(@, 1, n)]

RECURSIVE LoggedAs(_)
\* The batches of raw documents that a call logs as docs.
LoggedAs(docs) ==
    IF docs = <<>> THEN {<<>>}
    ELSE {<<raw>> \o rest : raw \in {r \in RawDocs : Logged(r) = Head(docs)},
                            rest \in LoggedAs(Tail(docs))}

\* C12: should_abort is polled before each record of read_documents and
\* before each id of remove_documents; when its k-th poll answers true and
\* the k - 1 records or ids before went through, the call fails with
\* AbortedIndexation and leaves the builder, the new ids, the replaced ids
\* and the sorters as the first k - 1 records or ids alone leave them.
C12_AbortKeepsEarlierEffects ==
    [][/\ (last'.op = "read_documents" /\ last'.abort_at > 0) =>
            \E raws \in LoggedAs(last'.docs) :
                /\ last'.docs = [i \in 1..Len(raws) |-> Logged(raws[i])]
                /\ LET Before(q) ==
                           IF q.err = ""
                           THEN last'.err = "AbortedIndexation" /\ LeavesAs(q.t)
                           ELSE last'.err = q.err
                   IN \E ties \in SortOutcomes(index) :
                          \E p \in {read_documents(Sorting(Self, ties), index,
                                                   index_documents_method,
                                                   FirstDocuments(raws, last'.abort_at - 1),
                                                   0)} : Before(p)
       /\ (last'.op = "remove_documents" /\ last'.abort_at > 0) =>
            LET Before(q) ==
                    IF q.err = ""
                    THEN last'.err = "AbortedIndexation" /\ LeavesAs(q.t)
                    ELSE last'.err = q.err
            IN \E ties \in SortOutcomes(index) :
                   \E p \in {remove_documents(Sorting(Self, ties), index,
                                              SubSeq(sort_dedup(last'.ids), 1,
                                                     last'.abort_at - 1),
                                              0)} : Before(p)]_vars

\* should_abort answered true before the second record of a batch: the
\* first record is in the session, the second is not.
C12_Witness ==
    /\ status = "failed"
    /\ last.op = "read_documents" /\ last.err = "AbortedIndexation" /\ last.abort_at = 2
    /\ last.docs[1].external_id # last.docs[2].external_id
    /\ last.docs[1].external_id \in DOMAIN new_external_documents_ids_builder
    /\ last.docs[2].external_id \notin DOMAIN new_external_documents_ids_builder
    /\ Cardinality(new_documents_ids) = 1
    /\ Cardinality(DOMAIN original_sorter) = 1

\* C13: a successful read_documents puts the fields ids map of the session
\* and the primary key in the index and writes nothing else to it; a failed
\* read_documents and remove_documents leave the index as it was.
C13_IndexWrittenOnSuccessOnly ==
    [][/\ (last'.op = "read_documents" /\ last'.err = "") =>
            index' = [index EXCEPT !.fields_ids_map = fields_ids_map',
                                   !.primary_key = "id"]
       /\ (last'.op = "read_documents" /\ last'.err # "") => index' = index
       /\ last'.op = "remove_documents" => index' = index]_vars

\* A batch failed after a record went through: the session's fields ids map
\* grew, the index has neither the new names nor a primary key.
C13_Witness ==
    /\ status = "failed"
    /\ last.op = "read_documents" /\ last.err # ""
    /\ new_documents_ids # {}
    /\ Len(fields_ids_map) > Len(index.fields_ids_map)
    /\ index.primary_key = ""

\* The frequency a field distribution gives a name (0 when it lacks it), the
\* names an output can speak of, and the persisted documents that carry a
\* name among the internal ids S.
Freq(field_distribution, name) ==
    IF name \in DOMAIN field_distribution THEN field_distribution[name] ELSE 0
NamesOfOutput ==
    {output.fields_ids_map[i] : i \in 1..Len(output.fields_ids_map)}
        \cup DOMAIN index.field_distribution
PersistedCarrying(name, S) ==
    {d \in S \cap DOMAIN index.documents :
         \E j \in 1..Len(index.documents[d]) :
             NameOf(index.fields_ids_map, index.documents[d][j][1]) = name}

\* C14, as stated: an output after persisted documents were removed, and
\* nothing was read, has every frequency lowered by the number of removed
\* documents that carried the field (a Deletion-only entry increments
\* nothing).
C14_RemovalLowersFrequencies ==
    (status = "output" /\ output.replaced_documents_ids # {}
        /\ \A e \in ExtIds : Adds(e) = 0) =>
        \A name \in NamesOfOutput :
            Freq(output.field_distribution, name)
                = Freq(index.field_distribution, name)
                    - Cardinality(PersistedCarrying(name, output.replaced_documents_ids))

\* The merged entries of the original file whose addition side carries the
\* field.
AddedCarrying(name) ==
    {i \in 1..Len(output.original_documents) :
         \E j \in 1..Len(output.original_documents[i][2]) :
             /\ NameOf(output.fields_ids_map, output.original_documents[i][2][j][1]) = name
             /\ output.original_documents[i][2][j][2].add # NoVal}

\* C15, as stated: in an output the frequency of every name is the number
\* of documents of the corpus after the update that carry the field: the
\* persisted documents that are not replaced and the merged entries with the
\* field on their addition side.
C15_FrequenciesCountTheCorpus ==
    status = "output" =>
        \A name \in NamesOfOutput :
            Freq(output.field_distribution, name)
                = Cardinality(PersistedCarrying(
                                  name, index.documents_ids \ output.replaced_documents_ids))
                    + Cardinality(AddedCarrying(name))

\* C16, as stated: both reducers are associative: however the sorter groups
\* the values a, b, c of one key into merges, ((a, b), c) or (a, (b, c)),
\* the value it is left with is the merge of (a, b, c).
C16_ReducersAreAssociative ==
    Len(chunks) = 1 => chunks[1] = merge_function(index_documents_method, obkvs)

\* C17: the reducers are sensitive to the order of a Deletion and an
\* Addition of the same field: [Deletion(f0), Addition(f0)] gives an Addition
\* carrying both sides of f0, [Addition(f0), Deletion(f0)] gives the Deletion
\* with its deletion side only, and a single input is returned unchanged.
C17_DeletionThenAdditionOrTheReverse ==
    merged # <<>> =>
        /\ merged.obkvs = <<deletive_doc_0, additive_doc_0>> =>
               merged.output = del_add_doc_0
        /\ merged.obkvs = <<additive_doc_0, deletive_doc_0>> =>
               merged.output = deletive_doc_0
        /\ Len(merged.obkvs) = 1 => merged.output = merged.obkvs[1]

\* The merge function was called on a Deletion followed by an Addition of
\* field 0.
C17_Witness ==
    /\ merged # <<>>
    /\ merged.obkvs = <<deletive_doc_0, additive_doc_0>>
    /\ merged.output.op = "Addition"
    /\ chunks = <<merged.output>>

\* C18: under the update-mode reducer [Addition(f1), Deletion(f0),
\* Addition(f0)] gives Addition(-v0, +v0) with no entry for field 1: an
\* Addition input that precedes a Deletion input gives nothing to the output,
\* which is the merge of the inputs from the last Deletion on.
C18_UpdateForgetsWhatPrecedesADeletion ==
    (merged # <<>> /\ index_documents_method = "UpdateDocuments") =>
        /\ merged.obkvs = <<additive_doc_1, deletive_doc_0, additive_doc_0>> =>
               /\ merged.output = del_add_doc_0
               /\ 1 \notin Keys(merged.output.obkv)
        /\ \A i \in 1..Len(merged.obkvs) :
               merged.obkvs[i].op = "Deletion" =>
                   merged.output = obkvs_merge_additions_and_deletions(
                                       SubSeq(merged.obkvs, i, Len(merged.obkvs)))

\* The update-mode reducer was called on an Addition of field 1, a Deletion
\* of field 0 and an Addition of field 0.
C18_Witness ==
    /\ merged # <<>>
    /\ index_documents_method = "UpdateDocuments"
    /\ merged.obkvs = <<additive_doc_1, deletive_doc_0, additive_doc_0>>
    /\ AdditionSide(merged.output.obkv) = <<<<0, Scalar("0")>>>>

\* The positions of the inputs tagged Addition, and the last of them.
Additions(inputs) == {i \in 1..Len(inputs) : inputs[i].op = "Addition"}
LastAddition(inputs) == CHOOSE i \in Additions(inputs) : \A j \in Additions(inputs) : j <= i

\* What test::merge_obkvs and the spec expect of the replace-mode reducer.
ReplaceExpectations ==
    /\ merged.obkvs = <<additive_doc_1, deletive_doc_0, additive_doc_0>> =>
           merged.output = del_add_doc_0
    /\ merged.obkvs = <<deletive_doc_0, additive_doc_1, additive_doc_0>> =>
           merged.output = del_add_doc_0
    /\ merged.obkvs = <<additive_doc_1, additive_doc_0>> => merged.output = additive_doc_0

\* C19, as stated: under the replace-mode reducer the addition side of the
\* output is the addition side of the last input tagged Addition, wherever
\* the Deletion inputs stand, and the output is a Deletion without addition
\* side when no input is tagged Addition.
C19_ReplaceKeepsLastAdditionAlways ==
    (merged # <<>> /\ index_documents_method = "ReplaceDocuments") =>
        /\ ReplaceExpectations
        /\ IF Additions(merged.obkvs) = {}
           THEN merged.output.op = "Deletion" /\ AdditionSide(merged.output.obkv) = <<>>
           ELSE AdditionSide(merged.output.obkv) =
                    AdditionSide(merged.obkvs[LastAddition(merged.obkvs)].obkv)

\* C19, amended: under the replace-mode reducer the output is the last input
\* when that input is tagged Deletion (no addition side is left, whatever
\* was added before), and carries the addition side of the last input, and
\* of that one only, when it is tagged Addition.
C19_ReplaceKeepsLastAddition ==
    (merged # <<>> /\ index_documents_method = "ReplaceDocuments") =>
        /\ ReplaceExpectations
        /\ LET newest == merged.obkvs[Len(merged.obkvs)]
           IN IF newest.op = "Deletion"
              THEN merged.output = newest
              ELSE /\ merged.output.op = "Addition"
                   /\ AdditionSide(merged.output.obkv) = AdditionSide(newest.obkv)

\* The replace-mode reducer was called on an Addition of field 1, a Deletion
\* of field 0 and an Addition of field 0.
C19_Witness ==
    /\ merged # <<>>
    /\ index_documents_method = "ReplaceDocuments"
    /\ merged.obkvs = <<additive_doc_1, deletive_doc_0, additive_doc_0>>
    /\ merged.output = del_add_doc_0

\* The last non-empty addition side of field k across the inputs, NoVal
\* when no input adds the field.
LastAdditionSide(inputs, k) ==
    LET adds(i) == k \in Keys(inputs[i].obkv) /\ ValueOf(inputs[i].obkv, k).add # NoVal
        adding == {i \in 1..Len(inputs) : adds(i)}
    IN IF adding = {} THEN NoVal
       ELSE ValueOf(inputs[CHOOSE i \in adding : \A j \in adding : j <= i].obkv, k).add

\* The obkv of the last non-empty addition sides across the inputs.
FieldwiseAdditions(inputs) ==
    LET ks == SortedSeq({k \in UNION {Keys(inputs[i].obkv) : i \in 1..Len(inputs)} :
                            LastAdditionSide(inputs, k) # NoVal})
    IN [n \in 1..Len(ks) |-> <<ks[n], LastAdditionSide(inputs, ks[n])>>]

\* The inputs from the last one tagged Deletion on, all of them when none is.
FromLastDeletion(inputs) ==
    LET deletions == {i \in 1..Len(inputs) : inputs[i].op = "Deletion"}
    IN IF deletions = {} THEN inputs
       ELSE SubSeq(inputs, CHOOSE i \in deletions : \A j \in deletions : j <= i,
                   Len(inputs))

\* C20, as stated: under the update-mode reducer the addition side of the
\* output is, field by field, the last non-empty addition side across all
\* the inputs; [Addition(f1), Addition(f0)] gives Addition(+v0, +v1).
C20_UpdateMergesAllAdditions ==
    (merged # <<>> /\ index_documents_method = "UpdateDocuments") =>
        /\ merged.obkvs = <<additive_doc_1, additive_doc_0>> =>
               merged.output = additive_doc_0_1
        /\ AdditionSide(merged.output.obkv) = FieldwiseAdditions(merged.obkvs)

\* C20, amended: under the update-mode reducer the addition side of the
\* output is, field by field, the last non-empty addition side across the
\* inputs from the last Deletion input on.
C20_UpdateMergesAdditionsSinceDeletion ==
    (merged # <<>> /\ index_documents_method = "UpdateDocuments") =>
        /\ merged.obkvs = <<additive_doc_1, additive_doc_0>> =>
               merged.output = additive_doc_0_1
        /\ AdditionSide(merged.output.obkv)
               = FieldwiseAdditions(FromLastDeletion(merged.obkvs))

\* The update-mode reducer was called on two Additions sharing field 0: the
\* output has field 0 of the second and field 1 of the first.
C20_Witness ==
    /\ merged # <<>>
    /\ index_documents_method = "UpdateDocuments"
    /\ merged.obkvs = <<additive_doc_0_1, additive_doc_0_new>>
    /\ AdditionSide(merged.output.obkv) = <<<<0, Scalar("2")>>, <<1, Scalar("1")>>>>

\* The ids the allocator of the session started with, and those it issued:
\* what next() consumed from the front.
Available == AvailableDocumentsIds(index.documents_ids, index.soft_deleted_documents_ids)
Issued == {Available[i] : i \in 1..(Len(Available) - Len(available_documents_ids))}

\* The external ids without a persisted mapping, and the internal ids the
\* records of such an external id were read under, in the order of the calls.
Fresh == ExtIds \ DOMAIN Persisted
DocidsOf(e) == LET adds == SelectSeq(history[e], LAMBDA h : h.op = "add")
               IN [i \in 1..Len(adds) |-> adds[i].docid]

\* C21: the ids allocated for external ids unknown to the session and to the
\* index are outside the live and the soft-deleted ids; they are issued in
\* ascending order and never twice, also after a removal; and when none is
\* left read_documents fails with DocumentLimitReached and the record gets
\* no builder entry (as long as the index is the one the session opened).
C21_AllocatedIdsAreFreshAndAscending ==
    status # "reindexed" =>
        /\ available_documents_ids
               = SubSeq(Available, Len(Available) - Len(available_documents_ids) + 1,
                        Len(Available))
        /\ Issued \cap (index.documents_ids \cup index.soft_deleted_documents_ids) = {}
        /\ \A e \in Fresh :
              /\ \A i \in 1..Len(DocidsOf(e)) : DocidsOf(e)[i] \in Issued
              /\ e \in DOMAIN new_external_documents_ids_builder =>
                     new_external_documents_ids_builder[e] \in Issued
              /\ \A i \in 1..Len(history[e]) : \A j \in (i + 1)..Len(history[e]) :
                     (history[e][i].op = "add" /\ history[e][j].op = "add") =>
                         IF \E k \in (i + 1)..(j - 1) : history[e][k].op = "remove"
                         THEN history[e][i].docid < history[e][j].docid
                         ELSE history[e][i].docid = history[e][j].docid
              /\ \A f \in Fresh \ {e} :
                     \A i \in 1..Len(DocidsOf(e)) : \A j \in 1..Len(DocidsOf(f)) :
                         DocidsOf(e)[i] # DocidsOf(f)[j]
        /\ last.err = "DocumentLimitReached" =>
              /\ available_documents_ids = <<>>
              /\ \E i \in 1..Len(last.docs) :
                     /\ last.docs[i].external_id \in Fresh
                     /\ last.docs[i].external_id \notin DOMAIN new_external_documents_ids_builder

\* An external id unknown to the index was read, removed and read again, and
\* the allocator had no id left the second time.
C21_Witness ==
    /\ last.err = "DocumentLimitReached"
    /\ \E e \in Fresh : Ops(e) = <<"add", "remove">> /\ history[e][1].docid \in Issued

\* C22, as stated: the output of prepare_for_documents_reindexing has an
\* empty external ids map, no replaced id and no new id, and the field
\* distribution of the index as it was.
C22_ReindexingOutputIsEmpty ==
    [][status' = "reindexed" =>
           /\ output'.new_external_documents_ids = <<>>
           /\ output'.replaced_documents_ids = {}
           /\ output'.new_documents_ids = {}
           /\ output'.field_distribution = index.field_distribution]_vars

\* C22, amended: the output of prepare_for_documents_reindexing has an empty
\* external ids map and no replaced id, whatever the session held; its new
\* ids are the documents ids of the index, its documents count their number,
\* and its field distribution the one of the index as it was.
C22_ReindexingOutput ==
    [][status' = "reindexed" =>
           /\ output'.new_external_documents_ids = <<>>
           /\ output'.replaced_documents_ids = {}
           /\ output'.new_documents_ids = index.documents_ids
           /\ output'.documents_count = Cardinality(index.documents_ids)
           /\ output'.field_distribution = index.field_distribution]_vars

\* A session that replaced a persisted document was re-indexed.
C22_Witness ==
    /\ status = "reindexed"
    /\ replaced_documents_ids # {}
    /\ new_external_documents_ids_builder # <<>>
    /\ output.new_documents_ids = {0, 2}
    /\ output.replaced_documents_ids = {}

\* All the session did with the persisted external id e was to read records
\* identical to its persisted one: the equality short-circuit fired for e.
ShortCircuited(e) ==
    /\ e \in DOMAIN Persisted
    /\ history[e] # <<>>
    /\ \A i \in 1..Len(history[e]) :
          /\ history[e][i].op = "add"
          /\ IsBase([external_id |-> e, fields |-> history[e][i].fields])

\* The values a sorter holds under a key, none when the key is not there.
Held(sorter, key) == IF key \in DOMAIN sorter THEN sorter[key] ELSE <<>>

\* C23: after the equality short-circuit fired for a persisted external id
\* e, remove_documents on e finds e out of the builder, counts it once,
\* inserts one Deletion under its internal id in each sorter (the deletion
\* side of the persisted record in the original one) and puts the id in
\* the replaced ids.
C23_RemoveAfterShortCircuit ==
    [][\A e \in ExtIds :
           (last'.op = "remove_documents" /\ last'.err = "" /\ e \in IdsOfCall(last')
               /\ ShortCircuited(e)) =>
               /\ e \notin DOMAIN new_external_documents_ids_builder
               /\ Persisted[e] \notin replaced_documents_ids
               /\ last'.ret = Cardinality({f \in IdsOfCall(last') : Known(f)})
               /\ original_sorter'[Persisted[e]]
                      = Append(Held(original_sorter, Persisted[e]),
                               [op |-> "Deletion",
                                obkv |-> into_del_add_obkv(index.documents[Persisted[e]],
                                                           TRUE, FALSE)])
               /\ Len(flattened_sorter'[Persisted[e]])
                      = Len(Held(flattened_sorter, Persisted[e])) + 1
               /\ flattened_sorter'[Persisted[e]][Len(flattened_sorter'[Persisted[e]])].op
                      = "Deletion"
               /\ Held(original_sorter, Persisted[e]) = <<>>
               /\ Held(flattened_sorter, Persisted[e]) = <<>>
               /\ Persisted[e] \in replaced_documents_ids'
               /\ e \notin DOMAIN new_external_documents_ids_builder'
               /\ Persisted[e] \notin new_documents_ids']_vars

\* A persisted document was read again unchanged and then removed, alone.
C23_Witness ==
    /\ last.op = "remove_documents" /\ last.err = "" /\ last.ret = 1
    /\ \E e \in DOMAIN Persisted :
         /\ last.ids = <<e>>
         /\ Ops(e) = <<"add", "remove">>
         /\ IsBase([external_id |-> e, fields |-> history[e][1].fields])
         /\ Persisted[e] \in replaced_documents_ids
         /\ Len(original_sorter[Persisted[e]]) = 1

\* The position in the history of e of the first record that differs from
\* the persisted one, 0 when there is none or when a removal came first.
FirstReplacement(e) ==
    LET differs(i) == /\ history[e][i].op = "add"
                      /\ ~IsBase([external_id |-> e, fields |-> history[e][i].fields])
        first == {i \in 1..Len(history[e]) :
                     /\ differs(i)
                     /\ \A j \in 1..(i - 1) : history[e][j].op = "add" /\ ~differs(j)}
    IN IF first = {} THEN 0 ELSE CHOOSE i \in first : TRUE

\* The entries of a sorter under a key that are tagged Addition and carry a
\* deletion side: the lifted base records.
Lifted(sorter, key) ==
    {i \in 1..Len(Held(sorter, key)) :
        /\ sorter[key][i].op = "Addition"
        /\ \E j \in 1..Len(sorter[key][i].obkv) : sorter[key][i].obkv[j][2].del # NoVal}

\* C24: when a record replaces a differing persisted version of its external
\* id for the first time in the session, the persisted record is inserted
\* under the same internal id right before the new record, tagged Addition,
\* with its deletion side and, in update mode only, its addition side; no
\* later record of the external id inserts it again, and no base is
\* inserted otherwise.
C24_BaseLiftedOnce ==
    status \in {"open", "output"} =>
        \A e \in DOMAIN Persisted :
            LET d == Persisted[e]
                n == FirstReplacement(e)
            IN IF n = 0
               THEN Lifted(original_sorter, d) = {} /\ Lifted(flattened_sorter, d) = {}
               ELSE /\ Lifted(original_sorter, d) = {1}
                    /\ Lifted(flattened_sorter, d) = {1}
                    /\ history[e][n].docid = d
                    /\ original_sorter[d][1]
                           = [op |-> "Addition",
                              obkv |-> into_del_add_obkv(
                                           index.documents[d], TRUE,
                                           index_documents_method = "UpdateDocuments")]
                    /\ \A j \in 1..Len(flattened_sorter[d][1].obkv) :
                           (flattened_sorter[d][1].obkv[j][2].add # NoVal)
                               = (index_documents_method = "UpdateDocuments")
                    /\ original_sorter[d][2]
                           = [op |-> "Addition",
                              obkv |-> into_del_add_obkv(
                                           CanonicalObkv(fields_ids_map, history[e][n].fields),
                                           FALSE, TRUE)]
                    /\ flattened_sorter[d][2].op = "Addition"

\* A persisted document was replaced by a differing record and then by
\* another one, in update mode.
C24_Witness ==
    /\ status = "open"
    /\ index_documents_method = "UpdateDocuments"
    /\ \E e \in DOMAIN Persisted :
         /\ Ops(e) = <<"add", "add">>
         /\ FirstReplacement(e) = 1
         /\ history[e][1].fields # history[e][2].fields
         /\ Len(original_sorter[Persisted[e]]) = 3
         /\ Lifted(original_sorter, Persisted[e]) = {1}

\* The last entries of the values of a key, as many as n.
LastEntries(sorter, key, n) ==
    SubSeq(Held(sorter, key), Len(Held(sorter, key)) - n + 1, Len(Held(sorter, key)))

\* C25: a persisted external id that was removed earlier in the session and
\* is read again starts as if the document never existed, in both methods:
\* the builder maps it to its persisted internal id, the id is in the new
\* ids (and stays in the replaced ids), and each record read since the
\* removal was inserted after the Deletion as an Addition without deletion
\* side, with no base and no equality short-circuit, also when it equals
\* the persisted record.
C25_ReAddAfterRemovalStartsAfresh ==
    status = "open" =>
        \A e \in DOMAIN Persisted :
            ReAdded(e) =>
                LET d == Persisted[e]
                    adds == AddsAfterRemoval(e)
                    Inserted(tail) ==
                        /\ Len(Held(original_sorter, d)) > Len(adds)
                        /\ original_sorter[d][Len(original_sorter[d]) - Len(adds)].op
                               = "Deletion"
                        /\ \A i \in 1..Len(adds) :
                               tail[i] = [op |-> "Addition",
                                          obkv |-> into_del_add_obkv(
                                                       CanonicalObkv(fields_ids_map,
                                                                     adds[i].fields),
                                                       FALSE, TRUE)]
                IN /\ e \in DOMAIN new_external_documents_ids_builder
                   /\ new_external_documents_ids_builder[e] = d
                   /\ \A i \in 1..Len(adds) : adds[i].docid = d
                   /\ d \in new_documents_ids
                   /\ d \in replaced_documents_ids
                   /\ Inserted(LastEntries(original_sorter, d, Len(adds)))
                   /\ Len(Held(flattened_sorter, d)) = Len(Held(original_sorter, d))
                   /\ \A i \in 1..Len(adds) :
                          LastEntries(flattened_sorter, d, Len(adds))[i].op = "Addition"
                   /\ Lifted(original_sorter, d) \subseteq 1..(Len(original_sorter[d]) - Len(adds) - 1)
                   /\ Lifted(flattened_sorter, d) \subseteq 1..(Len(flattened_sorter[d]) - Len(adds) - 1)

\* A persisted document was removed and then read again with the bytes of
\* its persisted record.
C25_Witness ==
    /\ status = "open"
    /\ \E e \in DOMAIN Persisted :
         /\ Ops(e) = <<"remove", "add">>
         /\ IsBase([external_id |-> e, fields |-> history[e][2].fields])
         /\ Persisted[e] \in new_documents_ids
         /\ Len(original_sorter[Persisted[e]]) = 2

\* How many times x occurs in the list.
Count(seq, x) == Cardinality({i \in DOMAIN seq : seq[i] = x})

\* The positions of the sorted list whose pair shares its key with the next.
Collisions(key_value) ==
    {i \in 1..(Len(key_value) - 1) : key_value[i][1] = key_value[i + 1][1]}

\* C26: two pairs of the same field id in the sorted list of the flattener
\* give one entry of the flattened record, an array: two arrays
\* concatenated, an array and a scalar the array with the scalar pushed,
\* two scalars the array of the two; whichever of the two comes first, the
\* array holds each element as many times as the two values together.
C26_CollidersMergeIntoOneArray ==
    (flattener_output # <<>> /\ flattener_output.err = "" /\ flattener_output.flattened) =>
        \A i \in Collisions(flattener_output.key_value) :
            LET key == flattener_output.key_value[i][1]
                left == flattener_output.key_value[i][2]
                right == flattener_output.key_value[i + 1][2]
                entries == {j \in 1..Len(flattener_output.obkv) :
                               flattener_output.obkv[j][1] = key}
            IN /\ Cardinality(entries) = 1
               /\ \A j \in entries :
                     LET value == flattener_output.obkv[j][2]
                     IN /\ value[1] = "array"
                        /\ \A x \in {left[2][n] : n \in DOMAIN left[2]}
                                   \cup {right[2][n] : n \in DOMAIN right[2]}
                                   \cup {value[2][n] : n \in DOMAIN value[2]} :
                              Count(value[2], x) = Count(left[2], x) + Count(right[2], x)
                        /\ (left[1] = "array" /\ right[1] = "array")
                              => value[2] = left[2] \o right[2]
                        /\ (left[1] = "array" /\ right[1] = "scalar")
                              => value[2] = Append(left[2], right[2][1])
                        /\ (left[1] = "scalar" /\ right[1] = "array")
                              => value[2] = Append(right[2], left[2][1])
                        /\ (left[1] = "scalar" /\ right[1] = "scalar")
                              => value[2] = <<left[2][1], right[2][1]>>

\* C26: a record was flattened whose dotted key and nested field collided,
\* the sort having left the flattened value first, an array, and the value
\* of the record second, a scalar.
C26_Witness ==
    /\ flattener_output # <<>>
    /\ flattener_output.err = ""
    /\ flattener_output.flattened
    /\ \E i \in Collisions(flattener_output.key_value) :
         /\ flattener_output.key_value[i][2] = Array(<<"paul", "bill">>)
         /\ flattener_output.key_value[i + 1][2] = Scalar("jean")
         /\ ValueOf(flattener_output.obkv, flattener_output.key_value[i][1])
              = Array(<<"paul", "bill", "jean">>)

\* C27: the canonical record assembled for a document and the record the
\* flattener makes of it have strictly ascending field ids: no writer
\* refuses a key, no field id is in more than two pairs of the sorted list
\* given to create_obkv_from_key_value, and every field id of that list is
\* in exactly one entry of the flattened record.
C27_RecordsAreStrictlyAscending ==
    /\ StrictlyAscending(flattener_obkv)
    /\ (flattener_output # <<>> /\ flattener_output.flattened) =>
           /\ flattener_output.err = ""
           /\ StrictlyAscending(flattener_output.obkv)
           /\ \A key \in Keys(flattener_output.key_value) :
                 /\ Cardinality({i \in 1..Len(flattener_output.key_value) :
                                    flattener_output.key_value[i][1] = key}) <= 2
                 /\ Cardinality({j \in 1..Len(flattener_output.obkv) :
                                    flattener_output.obkv[j][1] = key}) = 1
           /\ Keys(flattener_output.obkv) = Keys(flattener_output.key_value)

\* C27: the canonical record of a document, three fields, was flattened;
\* two of the three pairs of its sorted list shared a field id and the
\* flattened record holds two entries.
C27_Witness ==
    /\ Len(flattener_obkv) = 3
    /\ flattener_output # <<>>
    /\ flattener_output.flattened
    /\ Len(flattener_output.key_value) = 3
    /\ Len(flattener_output.obkv) = 2
    /\ Collisions(flattener_output.key_value) # {}

\* The persisted external ids are those of distinct live documents.
PersistedIsInjectiveIntoLive ==
    /\ \A e1, e2 \in DOMAIN Persisted : Persisted[e1] = Persisted[e2] => e1 = e2
    /\ \A e \in DOMAIN Persisted :
          Persisted[e] \in index.documents_ids \ index.soft_deleted_documents_ids

\* C28: over an index whose external ids are those of distinct live
\* documents, the external ids of the builder have distinct internal ids,
\* whatever calls were made.
C28_BuilderIsInjective ==
    PersistedIsInjectiveIntoLive =>
        \A e1, e2 \in DOMAIN new_external_documents_ids_builder :
            new_external_documents_ids_builder[e1] = new_external_documents_ids_builder[e2]
                => e1 = e2

\* C28: after a removal and an addition the builder holds two external ids,
\* one with its persisted internal id and one with an allocated id.
C28_Witness ==
    /\ status = "open"
    /\ PersistedIsInjectiveIntoLive
    /\ \E e \in ExtIds : "remove" \in {Ops(e)[i] : i \in 1..Len(Ops(e))}
    /\ \E e1, e2 \in DOMAIN new_external_documents_ids_builder :
         /\ e1 \in DOMAIN Persisted
         /\ new_external_documents_ids_builder[e1] = Persisted[e1]
         /\ e2 \notin DOMAIN Persisted
         /\ new_external_documents_ids_builder[e2] \in Issued

\* The internal ids the builder maps an external id to.
BuilderDocids ==
    {new_external_documents_ids_builder[e] : e \in DOMAIN new_external_documents_ids_builder}

\* C29: when read_documents or remove_documents has returned Ok, the new
\* documents ids are the internal ids of the builder, no more and no less.
C29_NewDocumentsIdsAreBuilderDocids ==
    (status = "open" /\ last.op \in {"read_documents", "remove_documents"} /\ last.err = "")
        => new_documents_ids = BuilderDocids

\* C29: remove_documents has returned Ok after removing a document that
\* the session had added, another external id being left in the builder
\* with its internal id in the new documents ids.
C29_Witness ==
    /\ status = "open"
    /\ last.op = "remove_documents" /\ last.err = "" /\ last.ret = 1
    /\ \E e \in ExtIds :
         /\ Len(Ops(e)) >= 2
         /\ Ops(e)[Len(Ops(e)) - 1] = "add"
         /\ Ops(e)[Len(Ops(e))] = "remove"
         /\ e \notin DOMAIN new_external_documents_ids_builder
    /\ new_documents_ids # {}
    /\ new_documents_ids = BuilderDocids

\* The operation bytes of the values a sorter holds under a key, in the
\* order of their insertion.
OpsUnder(sorter, key) == [i \in 1..Len(sorter[key]) |-> sorter[key][i].op]

\* C30: when read_documents or remove_documents has returned Ok, the two
\* sorters hold the same keys and, under each key, values with the same
\* operation bytes in the same order.
C30_SortersMirrorEachOther ==
    (status = "open" /\ last.op \in {"read_documents", "remove_documents"} /\ last.err = "")
        => /\ SorterKeys(original_sorter) = SorterKeys(flattened_sorter)
           /\ \A key \in SorterKeys(original_sorter) :
                 OpsUnder(original_sorter, key) = OpsUnder(flattened_sorter, key)

\* C30: after a replacement and a removal that returned Ok, a key holds
\* Additions followed by a Deletion in both sorters, the flattened record of
\* one value differing from the original one.
C30_Witness ==
    /\ status = "open"
    /\ last.op = "remove_documents" /\ last.err = "" /\ last.ret = 1
    /\ \E key \in SorterKeys(original_sorter) \cap SorterKeys(flattened_sorter) :
         /\ Len(original_sorter[key]) >= 3
         /\ OpsUnder(original_sorter, key)[1] = "Addition"
         /\ OpsUnder(original_sorter, key)[Len(original_sorter[key])] = "Deletion"
         /\ OpsUnder(original_sorter, key) = OpsUnder(flattened_sorter, key)
         /\ \E i \in 1..Len(original_sorter[key]) :
               original_sorter[key][i].obkv # flattened_sorter[key][i].obkv

\* The operation byte of the value inserted last under the key.
LastOp(sorter, key) == sorter[key][Len(sorter[key])].op

\* C31: when read_documents or remove_documents has returned Ok, the new
\* documents ids are the internal ids under which the original sorter holds
\* a value, the last one inserted being an Addition.
C31_NewDocumentsIdsEndWithAddition ==
    (status = "open" /\ last.op \in {"read_documents", "remove_documents"} /\ last.err = "")
        => \A docid \in 0..MaxDocId :
               docid \in new_documents_ids
                   <=> /\ docid \in SorterKeys(original_sorter)
                       /\ LastOp(original_sorter, docid) = "Addition"

\* C31: remove_documents has returned Ok; one internal id holds Additions
\* followed by a Deletion and is out of the new documents ids, another holds
\* an Addition last and is in them.
C31_Witness ==
    /\ status = "open"
    /\ last.op = "remove_documents" /\ last.err = "" /\ last.ret = 1
    /\ \E removed, kept \in SorterKeys(original_sorter) :
         /\ OpsUnder(original_sorter, removed)[1] = "Addition"
         /\ LastOp(original_sorter, removed) = "Deletion"
         /\ removed \notin new_documents_ids
         /\ LastOp(original_sorter, kept) = "Addition"
         /\ kept \in new_documents_ids

\* The persisted record as the flattened sorter holds it, under each
\* outcome of the sort of the flattener.
FlattenedBase(obkv) ==
    {LET Flat(flat) == IF flat.flattened THEN flat.obkv ELSE obkv
     IN Flat(flatten_from_fields_ids_map(fields_ids_map, obkv, ties)) :
     ties \in Ties(fields_ids_map, obkv)}

\* The internal ids of the persisted external ids.
PersistedDocids == {Persisted[e] : e \in DOMAIN Persisted}

\* C32: a persisted internal id under which a sorter holds values is in the
\* replaced documents ids, and the first value inserted under it has the
\* persisted record as its deletion side (the flattened persisted record in
\* the flattened sorter): the lifted version of a replacement or the
\* Deletion of a removal. The sorters only grow, so no value with an
\* addition side alone is ever inserted before it.
C32_PersistedIdsStartWithTheirBase ==
    \A docid \in PersistedDocids :
        /\ docid \in SorterKeys(original_sorter) =>
              /\ docid \in replaced_documents_ids
              /\ DeletionSide(original_sorter[docid][1].obkv) = index.documents[docid]
        /\ docid \in SorterKeys(flattened_sorter) =>
              /\ docid \in replaced_documents_ids
              /\ DeletionSide(flattened_sorter[docid][1].obkv)
                    \in FlattenedBase(index.documents[docid])

\* C32: one persisted document was replaced and another removed: the first
\* value under the id of the one is an Addition, under the id of the other
\* a Deletion, and a flattened persisted record differs from the original.
C32_Witness ==
    \E replaced, removed \in PersistedDocids
            \cap SorterKeys(original_sorter) \cap SorterKeys(flattened_sorter) :
        /\ original_sorter[replaced][1].op = "Addition"
        /\ Len(original_sorter[replaced]) >= 2
        /\ original_sorter[removed][1].op = "Deletion"
        /\ {replaced, removed} \subseteq replaced_documents_ids
        /\ \E docid \in {replaced, removed} :
              index.documents[docid] \notin FlattenedBase(index.documents[docid])

====
